---- MODULE Spec2Model ----
(***************************************************************************)
(* A model of the gob codec of rust-gob: the struct emitter                *)
(* (SerializeStructValue, in struct mode and in map mode), the public      *)
(* SerializeStruct that flushes it, the value decoder's deserialize_struct *)
(* with its eager map[interface{}]interface{} path, and the derive macro's *)
(* interpret_as override.                                                  *)
(*                                                                         *)
(* Buffers are sequences of bytes (0..255).  A Rust String is its UTF-8    *)
(* byte vector, so strings are byte sequences too.                         *)
(***************************************************************************)
EXTENDS Integers, Sequences, FiniteSets, TLC

(***************************************************************************)
(* Bounds of the model.                                                    *)
(***************************************************************************)
\* calls (serialize_field / skip_field) made on one emitter
MaxCalls == 4
\* the field count `len` handed to SerializeStructValue::new
MaxLen == 2

(***************************************************************************)
(* Well-known type ids.                                                    *)
(***************************************************************************)
BOOL == 1
I64 == 2
U64 == 3
F64 == 4
STR == 6
INTERFACE == 8
\* the first id of a user-defined type; the next ones go down from it
FirstUserId == -65

\* the ids of the built-in types: the scalars, and the wire-type envelope
WellKnownIds == (1..8) \cup (16..22)

(***************************************************************************)
(* Strings, as their UTF-8 bytes.                                          *)
(***************************************************************************)
S_string == <<115, 116, 114, 105, 110, 103>>            \* "string"
S_int64 == <<105, 110, 116, 54, 52>>                    \* "int64"
S_uint64 == <<117, 105, 110, 116, 54, 52>>              \* "uint64"
S_float64 == <<102, 108, 111, 97, 116, 54, 52>>         \* "float64"
S_bool == <<98, 111, 111, 108>>                         \* "bool"
S_uid == <<117, 105, 100>>                              \* "uid"
S_uname == <<117, 110, 97, 109, 101>>                   \* "uname"
S_email == <<101, 109, 97, 105, 108>>                   \* "email"
S_old_uid == <<95, 111, 108, 100, 95, 117, 105, 100>>   \* "_old_uid"
\* "userHasTwoFactorAuth"
S_has_2fa == <<117, 115, 101, 114, 72, 97, 115, 84, 119, 111,
               70, 97, 99, 116, 111, 114, 65, 117, 116, 104>>
S_X == <<88>>                                           \* "X"
S_Y == <<89>>                                           \* "Y"
S_Z == <<90>>                                           \* "Z"
S_t == <<116>>                                          \* "t"
S_e == <<101>>                                          \* "e"
S_1 == <<49>>                                           \* "1"
\* "int", the name of the Go type int
S_int == <<105, 110, 116>>

(***************************************************************************)
(* Host values handed to a serializer: an i64, a String or a bool.         *)
(***************************************************************************)
V_I64(n) == [k |-> "I64", i |-> n, s |-> <<>>, b |-> FALSE]
V_Str(bytes) == [k |-> "Str", i |-> 0, s |-> bytes, b |-> FALSE]
V_Bool(v) == [k |-> "Bool", i |-> 0, s |-> <<>>, b |-> v]
\* the two other scalars a decoder can produce: a u64, and an f64 as the
\* eight bytes of its bits, most significant first
V_U64(n) == [k |-> "U64", i |-> n, s |-> <<>>, b |-> FALSE]
V_F64(bits) == [k |-> "F64", i |-> 0, s |-> bits, b |-> FALSE]

(***************************************************************************)
(* The varint codec of the message buffer.                                 *)
(***************************************************************************)
RECURSIVE BytesBE(_)
\* the big-endian bytes of n, most significant non-zero byte first
BytesBE(n) == IF n = 0 THEN <<>> ELSE Append(BytesBE(n \div 256), n % 256)

\* an unsigned integer: one byte below 128, else 256 - byteCount and the bytes
EncUint(n) ==
    IF n < 128 THEN <<n>>
    ELSE LET bs == BytesBE(n) IN <<256 - Len(bs)>> \o bs

\* a signed integer: the sign in bit 0, the (complemented) value above it
EncInt(i) == EncUint(IF i < 0 THEN 2 * (-i - 1) + 1 ELSE 2 * i)

EncBool(b) == EncUint(IF b THEN 1 ELSE 0)

\* a length-counted byte slice
EncBytes(bytes) == EncUint(Len(bytes)) \o bytes

write_uint(buf, n) == buf \o EncUint(n)

(***************************************************************************)
(* Reading from a message: `pos` is the cursor, the count of bytes         *)
(* consumed.  A read returns [ok, v, pos].                                 *)
(***************************************************************************)
RdErr(pos) == [ok |-> FALSE, v |-> 0, pos |-> pos]
Rd(v, pos) == [ok |-> TRUE, v |-> v, pos |-> pos]

RECURSIVE ValueBE(_)
\* the number a big-endian byte sequence stands for
ValueBE(bytes) ==
    IF bytes = <<>> THEN 0
    ELSE 256 * ValueBE(SubSeq(bytes, 1, Len(bytes) - 1)) + bytes[Len(bytes)]

\* Message::read_uint
read_uint(buf, pos) ==
    IF pos >= Len(buf) THEN RdErr(pos)
    ELSE LET b == buf[pos + 1] IN
         IF b < 128 THEN Rd(b, pos + 1)
         ELSE LET n == 256 - b IN
              IF n > 8 \/ pos + 1 + n > Len(buf) THEN RdErr(pos + 1)
              ELSE Rd(ValueBE(SubSeq(buf, pos + 2, pos + 1 + n)), pos + 1 + n)

\* Message::read_int
read_int(buf, pos) ==
    LET Signed(u) ==
            IF ~u.ok THEN u
            ELSE Rd(IF u.v % 2 = 1 THEN -(u.v \div 2) - 1 ELSE u.v \div 2,
                    u.pos)
    IN  Signed(read_uint(buf, pos))

\* Message::read_bool
read_bool(buf, pos) ==
    LET Bool(u) ==
            IF ~u.ok THEN u
            ELSE IF u.v = 0 THEN Rd(FALSE, u.pos)
            ELSE IF u.v = 1 THEN Rd(TRUE, u.pos)
            ELSE RdErr(u.pos)
    IN  Bool(read_uint(buf, pos))

\* Message::read_bytes_len: a length that the rest of the message can hold
read_bytes_len(buf, pos) ==
    LET Fits(u) ==
            IF ~u.ok THEN u
            ELSE IF u.pos + u.v > Len(buf) THEN RdErr(u.pos)
            ELSE u
    IN  Fits(read_uint(buf, pos))

\* str::from_utf8 over the bytes the model uses: ASCII, and the two-byte
\* sequences; any other byte is not valid UTF-8
RECURSIVE IsUtf8(_)
IsUtf8(bytes) ==
    IF bytes = <<>> THEN TRUE
    ELSE IF bytes[1] < 128 THEN IsUtf8(Tail(bytes))
    ELSE IF bytes[1] \in 194..223 /\ Len(bytes) >= 2 /\ bytes[2] \in 128..191
    THEN IsUtf8(Tail(Tail(bytes)))
    ELSE FALSE

\* a length-counted byte slice: advance over it and view it as a str
read_str(buf, pos) ==
    LET Str(bytes, next) ==
            IF IsUtf8(bytes) THEN Rd(bytes, next)
            ELSE [ok |-> FALSE, v |-> <<>>, pos |-> next]
        Slice(n) ==
            IF ~n.ok THEN [ok |-> FALSE, v |-> <<>>, pos |-> n.pos]
            ELSE Str(SubSeq(buf, n.pos + 1, n.pos + n.v), n.pos + n.v)
    IN  Slice(read_bytes_len(buf, pos))


(***************************************************************************)
(* The writer's schema: type id -> type.                                   *)
(***************************************************************************)
StructType(name, fields) ==
    [kind |-> "Struct", name |-> name, fields |-> fields, key |-> 0, elem |-> 0]
MapType(key, elem) ==
    [kind |-> "Map", name |-> <<>>, fields |-> <<>>, key |-> key, elem |-> elem]
SeqType(elem) ==
    [kind |-> "Seq", name |-> <<>>, fields |-> <<>>, key |-> 0, elem |-> elem]
NoType == [kind |-> "None", name |-> <<>>, fields |-> <<>>, key |-> 0, elem |-> 0]

StructField(name, id) == [name |-> name, id |-> id]

\* Schema::lookup: the type registered under an id, or None
lookup(schema, type_id) ==
    IF type_id \in DOMAIN schema THEN schema[type_id] ELSE NoType

(***************************************************************************)
(* FieldValueSerializer: the bytes of one value under a type id, and       *)
(* whether the value is its type's zero default.                           *)
(***************************************************************************)
SerErr(msg) == [ok |-> FALSE, bytes |-> <<>>, is_empty |-> FALSE, err |-> msg]
SerOk(bytes, is_empty) ==
    [ok |-> TRUE, bytes |-> bytes, is_empty |-> is_empty, err |-> ""]

\* the gob name of a host scalar's concrete type
ConcreteName(v) ==
    CASE v.k = "I64" -> S_int64
      [] v.k = "Str" -> S_string
      [] v.k = "Bool" -> S_bool

\* the well-known id of a host scalar's concrete type
ConcreteId(v) ==
    CASE v.k = "I64" -> I64
      [] v.k = "Str" -> STR
      [] v.k = "Bool" -> BOOL

\* the raw body of a scalar
ScalarBody(v) ==
    CASE v.k = "I64" -> EncInt(v.i)
      [] v.k = "Str" -> EncBytes(v.s)
      [] v.k = "Bool" -> EncBool(v.b)

\* is the scalar its kind's zero default (0, "", false)
IsZero(v) ==
    CASE v.k = "I64" -> v.i = 0
      [] v.k = "Str" -> v.s = <<>>
      [] v.k = "Bool" -> ~v.b

\* an interface value: the concrete type's name, its id, and the value as a
\* nested message (byte count, singleton marker, body)
InterfaceBytes(v) ==
    LET inner == <<0>> \o ScalarBody(v)
    IN  EncBytes(ConcreteName(v)) \o EncInt(ConcreteId(v))
            \o EncUint(Len(inner)) \o inner

FieldValueSerializer(type_id, v) ==
    IF type_id = INTERFACE THEN SerOk(InterfaceBytes(v), FALSE)
    ELSE IF type_id \in {BOOL, I64, STR} /\ type_id = ConcreteId(v)
         THEN SerOk(ScalarBody(v), IsZero(v))
    ELSE SerErr("schema mismatch")

(***************************************************************************)
(* FieldValueDeserializer: the scalar read under a type id.                *)
(***************************************************************************)
FieldValueDeserializer(type_id, buf, pos) ==
    LET Bool(r) ==
            [ok |-> r.ok, v |-> V_Bool(r.ok /\ r.v), pos |-> r.pos]
        I64Of(r) == [ok |-> r.ok, v |-> V_I64(r.v), pos |-> r.pos]
        Str(r) == [ok |-> r.ok, v |-> V_Str(r.v), pos |-> r.pos]
    IN  IF type_id = BOOL THEN Bool(read_bool(buf, pos))
        ELSE IF type_id = I64 THEN I64Of(read_int(buf, pos))
        ELSE IF type_id = STR THEN Str(read_str(buf, pos))
        ELSE [ok |-> FALSE, v |-> V_I64(0), pos |-> pos]

(***************************************************************************)
(* SerializeStructValue: the struct emitter.  `value` is ctx.value, the    *)
(* buffer of the message being built.                                      *)
(***************************************************************************)
NoEmitter ==
    [st |-> "none", err |-> "", mode |-> "None", type_id |-> 0,
     fields |-> <<>>, current_field_idx |-> 0,
     last_serialized_field_idx |-> -1,
     len |-> 0, key_type |-> 0, elem_type |-> 0, needs_init |-> FALSE,
     value |-> <<>>]

\* the call returned Err: the emitter is left as the call found or made it
Failed(self, msg) == [self EXCEPT !.st = "err", !.err = msg]

\* new making the map mode with its header taken as written
new_initialized(schema, type_id, len) ==
    LET schema_type == lookup(schema, type_id) IN
    IF schema_type.kind = "None"
    THEN Failed([NoEmitter EXCEPT !.type_id = type_id], "type not found")
    ELSE IF schema_type.kind = "Struct"
    THEN [NoEmitter EXCEPT !.st = "open", !.mode = "Struct",
                           !.type_id = type_id,
                           !.fields = schema_type.fields,
                           !.current_field_idx = 0,
                           !.last_serialized_field_idx = -1]
    ELSE IF schema_type.kind = "Map"
    THEN [NoEmitter EXCEPT !.st = "open", !.mode = "Map",
                           !.type_id = type_id,
                           !.len = len,
                           !.key_type = schema_type.key,
                           !.elem_type = schema_type.elem,
                           !.needs_init = FALSE]
    ELSE Failed([NoEmitter EXCEPT !.type_id = type_id],
                "schema mismatch, not a struct or map")

\* SerializeStructValue::new; the record of a failed call keeps the id asked
\* for
new(schema, type_id, len) ==
    LET schema_type == lookup(schema, type_id) IN
    IF schema_type.kind = "None"
    THEN Failed([NoEmitter EXCEPT !.type_id = type_id], "type not found")
    ELSE IF schema_type.kind = "Struct"
    THEN [NoEmitter EXCEPT !.st = "open", !.mode = "Struct",
                           !.type_id = type_id,
                           !.fields = schema_type.fields,
                           !.current_field_idx = 0,
                           !.last_serialized_field_idx = -1]
    ELSE IF schema_type.kind = "Map"
    THEN [NoEmitter EXCEPT !.st = "open", !.mode = "Map",
                           !.type_id = type_id,
                           !.len = len,
                           !.key_type = schema_type.key,
                           !.elem_type = schema_type.elem,
                           !.needs_init = TRUE]
    ELSE Failed([NoEmitter EXCEPT !.type_id = type_id],
                "schema mismatch, not a struct or map")

\* serialize_field in struct mode without the truncate of an empty field
serialize_field_struct_keep(self, key, v) ==
    LET field_delta == self.current_field_idx - self.last_serialized_field_idx
        with_delta == write_uint(self.value, field_delta)
    IN  IF self.current_field_idx >= Len(self.fields)
        THEN [self EXCEPT !.st = "panic", !.value = with_delta]
        ELSE LET type_id == self.fields[self.current_field_idx + 1].id
                 r == FieldValueSerializer(type_id, v)
             IN  IF ~r.ok
                 THEN [Failed(self, r.err) EXCEPT !.value = with_delta]
                 ELSE IF ~r.is_empty
                 THEN [self EXCEPT
                         !.value = with_delta \o r.bytes,
                         !.last_serialized_field_idx = self.current_field_idx,
                         !.current_field_idx = self.current_field_idx + 1]
                 ELSE [self EXCEPT
                         !.value = with_delta \o r.bytes,
                         !.current_field_idx = self.current_field_idx + 1]

\* serialize_field in StructMode::Struct
serialize_field_struct(self, key, v) ==
    LET pre_pos == Len(self.value)
        field_delta == self.current_field_idx - self.last_serialized_field_idx
        with_delta == write_uint(self.value, field_delta)
    IN  \* fields[*current_field_idx] panics past the last field
        IF self.current_field_idx >= Len(self.fields)
        THEN [self EXCEPT !.st = "panic", !.value = with_delta]
        ELSE LET type_id == self.fields[self.current_field_idx + 1].id
                 r == FieldValueSerializer(type_id, v)
             IN  IF ~r.ok
                 THEN [Failed(self, r.err) EXCEPT !.value = with_delta]
                 ELSE IF ~r.is_empty
                 THEN [self EXCEPT
                         !.value = with_delta \o r.bytes,
                         !.last_serialized_field_idx = self.current_field_idx,
                         !.current_field_idx = self.current_field_idx + 1]
                 ELSE \* reset the buffer to the previous position
                      [self EXCEPT
                         !.value = SubSeq(with_delta \o r.bytes, 1, pre_pos),
                         !.current_field_idx = self.current_field_idx + 1]

\* serialize_field in map mode writing the header on every call
serialize_field_map_reinit(self, key, v) ==
    LET init == write_uint(write_uint(self.value, 0), self.len)
        k == FieldValueSerializer(self.key_type, V_Str(key))
        e == FieldValueSerializer(self.elem_type, v)
    IN  IF ~k.ok
        THEN [Failed(self, k.err) EXCEPT !.value = init, !.needs_init = FALSE]
        ELSE IF ~e.ok
        THEN [Failed(self, e.err) EXCEPT !.value = init \o k.bytes,
                                         !.needs_init = FALSE]
        ELSE [self EXCEPT !.value = init \o k.bytes \o e.bytes,
                          !.needs_init = FALSE]

\* serialize_field in StructMode::Map
serialize_field_map(self, key, v) ==
    LET init == IF self.needs_init
                THEN write_uint(write_uint(self.value, 0), self.len)
                ELSE self.value
        k == FieldValueSerializer(self.key_type, V_Str(key))
        e == FieldValueSerializer(self.elem_type, v)
    IN  IF ~k.ok
        THEN [Failed(self, k.err) EXCEPT !.value = init, !.needs_init = FALSE]
        ELSE IF ~e.ok
        THEN [Failed(self, e.err) EXCEPT !.value = init \o k.bytes,
                                         !.needs_init = FALSE]
        ELSE [self EXCEPT !.value = init \o k.bytes \o e.bytes,
                          !.needs_init = FALSE]

\* SerializeStructValue::serialize_field
serialize_field(self, key, v) ==
    IF self.mode = "Struct"
    THEN serialize_field_struct(self, key, v)
    ELSE serialize_field_map(self, key, v)

\* skip_field that does not advance current_field_idx
skip_field_stay(self, key) == self

\* SerializeStructValue::skip_field
skip_field(self, key) ==
    IF self.mode = "Struct"
    THEN [self EXCEPT !.current_field_idx = self.current_field_idx + 1]
    ELSE self

\* end that leaves a struct body without its terminator
end_open(self) == [self EXCEPT !.st = "ended"]

\* SerializeStructValue::end
end(self) ==
    IF self.mode = "Struct"
    THEN [self EXCEPT !.st = "ended", !.value = write_uint(self.value, 0)]
    ELSE IF self.len = 0
    THEN [self EXCEPT !.st = "ended", !.value = write_uint(self.value, 0)]
    ELSE [self EXCEPT !.st = "ended"]


(***************************************************************************)
(* Host struct types, as a derived Deserialize sees them: the serialized   *)
(* name and the scalar kind of each field, in declaration order, and       *)
(* whether a field the input does not carry takes its default.             *)
(***************************************************************************)
HostField(name, kind) == [name |-> name, kind |-> kind]

\* struct User of the test, with its serde renames; no #[serde(default)]
HostUser ==
    [name |-> "User", default |-> FALSE,
     fields |-> <<HostField(S_uid, "I64"), HostField(S_uname, "Str"),
                  HostField(S_email, "Str"), HostField(S_old_uid, "Str"),
                  HostField(S_has_2fa, "Bool")>>]

\* struct Point{X, Y, Z}, whose unvisited fields keep their zero default
HostPoint ==
    [name |-> "Point", default |-> TRUE,
     fields |-> <<HostField(S_X, "I64"), HostField(S_Y, "I64"),
                  HostField(S_Z, "I64")>>]

ZeroOf(kind) ==
    CASE kind = "I64" -> V_I64(0)
      [] kind = "Str" -> V_Str(<<>>)
      [] kind = "Bool" -> V_Bool(FALSE)

(***************************************************************************)
(* The outcome of a decode: Ok with the struct's fields, or Err.           *)
(***************************************************************************)
DeOk(f) == [ok |-> TRUE, err |-> "", f |-> f]
DeErr(msg) == [ok |-> FALSE, err |-> msg, f |-> <<>>]

\* a wire entry for the visitor: a key and a scalar
Entry(key, v) == [key |-> key, v |-> v]

\* the index of the field an identifier names, 0 when it names none
FieldIndex(host, key) ==
    IF \E i \in 1..Len(host.fields) : host.fields[i].name = key
    THEN CHOOSE i \in 1..Len(host.fields) : host.fields[i].name = key
    ELSE 0

\* does a field of `kind` take the scalar (the primitive visitors of serde:
\* an i64 takes an i64 or a u64, a String a string, a bool a bool)
Accepts(kind, v) ==
    \/ kind = "I64" /\ v.k \in {"I64", "U64"}
    \/ kind = "Str" /\ v.k = "Str"
    \/ kind = "Bool" /\ v.k = "Bool"

None == [k |-> "None", i |-> 0, s |-> <<>>, b |-> FALSE]

RECURSIVE VisitEntries(_, _, _, _)
\* the loop of the derived visit_map over the entries from the k-th on:
\* `got` holds Some(value) or None per field
VisitEntries(host, entries, k, got) ==
    IF k > Len(entries)
    THEN \* a field never seen: its default, or Err(missing field)
         IF \E i \in 1..Len(got) : got[i] = None /\ ~host.default
         THEN DeErr("missing field")
         ELSE DeOk([i \in 1..Len(got) |->
                      IF got[i] = None THEN ZeroOf(host.fields[i].kind)
                      ELSE got[i]])
    ELSE LET i == FieldIndex(host, entries[k].key)
             v == entries[k].v
         IN  IF i = 0
             THEN \* an unknown key: the value is ignored
                  VisitEntries(host, entries, k + 1, got)
             ELSE IF got[i] # None THEN DeErr("duplicate field")
             ELSE IF ~Accepts(host.fields[i].kind, v) THEN DeErr("invalid type")
             ELSE VisitEntries(host, entries, k + 1,
                    [got EXCEPT ![i] =
                        IF v.k = "U64" THEN V_I64(v.i) ELSE v])

\* Visitor::visit_map of a derived Deserialize
visit_map(host, entries) ==
    VisitEntries(host, entries, 1, [i \in 1..Len(host.fields) |-> None])

(***************************************************************************)
(* StructValueDeserializer: a struct body, delta by delta.                 *)
(***************************************************************************)
RECURSIVE StructEntries(_, _, _, _, _)
\* [ok, err, entries]: the (field name, value) pairs of the body from `pos`,
\* after the `entries` already read
StructEntries(fields, buf, pos, last, entries) ==
    LET Value(idx, b) ==
            IF ~b.ok THEN [ok |-> FALSE, err |-> "eof", entries |-> <<>>]
            ELSE StructEntries(fields, buf, b.pos, idx,
                     Append(entries, Entry(fields[idx + 1].name, b.v)))
        Delta(d) ==
            IF ~d.ok THEN [ok |-> FALSE, err |-> "eof", entries |-> <<>>]
            ELSE IF d.v = 0 THEN [ok |-> TRUE, err |-> "", entries |-> entries]
            ELSE IF last + d.v >= Len(fields)
            THEN [ok |-> FALSE, err |-> "invalid field delta",
                  entries |-> <<>>]
            ELSE Value(last + d.v,
                       FieldValueDeserializer(fields[last + d.v + 1].id,
                                              buf, d.pos))
    IN  Delta(read_uint(buf, pos))

StructValueDeserializer(struct_type, buf, host) ==
    LET Visit(r) == IF ~r.ok THEN DeErr(r.err) ELSE visit_map(host, r.entries)
    IN  Visit(StructEntries(struct_type.fields, buf, 0, -1, <<>>))

(***************************************************************************)
(* ValueDeserializer::deserialize_struct.                                  *)
(***************************************************************************)
\* Message::read_float: an unsigned integer whose eight bytes, reversed,
\* are the bits of the f64
RECURSIVE Reverse(_)
Reverse(bytes) ==
    IF bytes = <<>> THEN <<>> ELSE Append(Reverse(Tail(bytes)), bytes[1])

read_float(buf, pos) ==
    LET Bits(u, be) ==
            Rd(Reverse([i \in 1..(8 - Len(be)) |-> 0] \o be), u.pos)
        Float(u) == IF ~u.ok THEN u ELSE Bits(u, BytesBE(u.v))
    IN  Float(read_uint(buf, pos))

ReErr(msg, pos) == [ok |-> FALSE, err |-> msg, v |-> None, pos |-> pos]
ReOk(v, pos) == [ok |-> TRUE, err |-> "", v |-> v, pos |-> pos]

\* the header of an interface value read without its singleton marker
InterfaceHeader_nosingleton(buf, pos) ==
    LET ByteCount(ty, byte_count) ==
            IF ~byte_count.ok THEN ReErr("eof", byte_count.pos)
            ELSE ReOk(V_Str(ty.v), byte_count.pos)
        TyId(ty, ty_id) ==
            IF ~ty_id.ok THEN ReErr("eof", ty_id.pos)
            ELSE ByteCount(ty, read_uint(buf, ty_id.pos))
        Ty(ty) ==
            IF ~ty.ok THEN ReErr("type name", ty.pos)
            ELSE TyId(ty, read_int(buf, ty.pos))
    IN  Ty(read_str(buf, pos))

\* the header of an interface value whose inner singleton marker must be 0
InterfaceHeader_checked(buf, pos) ==
    LET Singleton(ty, singleton) ==
            IF ~singleton.ok THEN ReErr("eof", singleton.pos)
            ELSE IF singleton.v # 0 THEN ReErr("singleton", singleton.pos)
            ELSE ReOk(V_Str(ty.v), singleton.pos)
        ByteCount(ty, byte_count) ==
            IF ~byte_count.ok THEN ReErr("eof", byte_count.pos)
            ELSE Singleton(ty, read_uint(buf, byte_count.pos))
        TyId(ty, ty_id) ==
            IF ~ty_id.ok THEN ReErr("eof", ty_id.pos)
            ELSE ByteCount(ty, read_uint(buf, ty_id.pos))
        Ty(ty) ==
            IF ~ty.ok THEN ReErr("type name", ty.pos)
            ELSE TyId(ty, read_int(buf, ty.pos))
    IN  Ty(read_str(buf, pos))

\* the header of one interface value: the concrete type's name, then the
\* type id, the byte count and the singleton marker, read and dropped
InterfaceHeader(buf, pos) ==
    LET Singleton(ty, singleton) ==
            IF ~singleton.ok THEN ReErr("eof", singleton.pos)
            ELSE ReOk(V_Str(ty.v), singleton.pos)
        ByteCount(ty, byte_count) ==
            IF ~byte_count.ok THEN ReErr("eof", byte_count.pos)
            ELSE Singleton(ty, read_uint(buf, byte_count.pos))
        TyId(ty, ty_id) ==
            IF ~ty_id.ok THEN ReErr("eof", ty_id.pos)
            ELSE ByteCount(ty, read_uint(buf, ty_id.pos))
        Ty(ty) ==
            IF ~ty.ok THEN ReErr("type name", ty.pos)
            ELSE TyId(ty, read_int(buf, ty.pos))
    IN  Ty(read_str(buf, pos))

\* a key read as a string whatever its concrete type
InterfaceKey_anytype(buf, pos) ==
    LET Str(r) == IF r.ok THEN ReOk(V_Str(r.v), r.pos) ELSE ReErr("key", r.pos)
        Key(h) == IF ~h.ok THEN h ELSE Str(read_str(buf, h.pos))
    IN  Key(InterfaceHeader(buf, pos))

\* the key of an entry: an interface value that must hold a string
InterfaceKey(buf, pos) ==
    LET Str(r) == IF r.ok THEN ReOk(V_Str(r.v), r.pos) ELSE ReErr("key", r.pos)
        Key(h) ==
            IF ~h.ok THEN h
            ELSE IF h.v.s = S_string THEN Str(read_str(buf, h.pos))
            ELSE ReErr("unsupported map key type in interface map", h.pos)
    IN  Key(InterfaceHeader(buf, pos))

\* the value of an entry with an int64 read as an unsigned varint
InterfaceValue_unsigned(buf, pos) ==
    LET Str(r) ==
            IF r.ok THEN ReOk(V_Str(r.v), r.pos) ELSE ReErr("value", r.pos)
        I64Of(r) ==
            IF r.ok THEN ReOk(V_I64(r.v), r.pos) ELSE ReErr("value", r.pos)
        Uint(r) ==
            IF r.ok THEN ReOk(V_U64(r.v), r.pos) ELSE ReErr("value", r.pos)
        Bool(r) ==
            IF r.ok THEN ReOk(V_Bool(r.v), r.pos) ELSE ReErr("value", r.pos)
        Float(r) ==
            IF r.ok THEN ReOk(V_F64(r.v), r.pos) ELSE ReErr("value", r.pos)
        Val(h) ==
            IF ~h.ok THEN h
            ELSE IF h.v.s = S_string THEN Str(read_str(buf, h.pos))
            ELSE IF h.v.s = S_int64 THEN I64Of(read_uint(buf, h.pos))
            ELSE IF h.v.s = S_uint64 THEN Uint(read_uint(buf, h.pos))
            ELSE IF h.v.s = S_bool THEN Bool(read_bool(buf, h.pos))
            ELSE IF h.v.s = S_float64 THEN Float(read_float(buf, h.pos))
            ELSE ReErr("unsupported map value type in interface map", h.pos)
    IN  Val(InterfaceHeader(buf, pos))

\* the value of an entry: a scalar typed by the concrete type's name
InterfaceValue(buf, pos) ==
    LET Str(r) ==
            IF r.ok THEN ReOk(V_Str(r.v), r.pos) ELSE ReErr("value", r.pos)
        I64Of(r) ==
            IF r.ok THEN ReOk(V_I64(r.v), r.pos) ELSE ReErr("value", r.pos)
        Uint(r) ==
            IF r.ok THEN ReOk(V_U64(r.v), r.pos) ELSE ReErr("value", r.pos)
        Bool(r) ==
            IF r.ok THEN ReOk(V_Bool(r.v), r.pos) ELSE ReErr("value", r.pos)
        Float(r) ==
            IF r.ok THEN ReOk(V_F64(r.v), r.pos) ELSE ReErr("value", r.pos)
        Val(h) ==
            IF ~h.ok THEN h
            ELSE IF h.v.s = S_string THEN Str(read_str(buf, h.pos))
            ELSE IF h.v.s = S_int64 THEN I64Of(read_int(buf, h.pos))
            ELSE IF h.v.s = S_uint64 THEN Uint(read_uint(buf, h.pos))
            ELSE IF h.v.s = S_bool THEN Bool(read_bool(buf, h.pos))
            ELSE IF h.v.s = S_float64 THEN Float(read_float(buf, h.pos))
            ELSE ReErr("unsupported map value type in interface map", h.pos)
    IN  Val(InterfaceHeader(buf, pos))

RECURSIVE InterfaceEntries(_, _, _, _)
\* the loop `for _ in 0..len`: [ok, err, entries] after the `n` entries from
\* pos are pushed onto `entries`
InterfaceEntries(buf, pos, n, entries) ==
    LET Push(key, val) ==
            IF ~val.ok THEN [ok |-> FALSE, err |-> val.err, entries |-> <<>>]
            ELSE InterfaceEntries(buf, val.pos, n - 1,
                     Append(entries, Entry(key.v.s, val.v)))
        Key(key) ==
            IF ~key.ok THEN [ok |-> FALSE, err |-> key.err, entries |-> <<>>]
            ELSE Push(key, InterfaceValue(buf, key.pos))
    IN  IF n = 0 THEN [ok |-> TRUE, err |-> "", entries |-> entries]
        ELSE Key(InterfaceKey(buf, pos))

\* the eager path handing the visitor the entries under the host's field
\* names in wire order, whatever their keys
deserialize_interface_map_positional(buf, host) ==
    LET Visit(r) ==
            IF ~r.ok THEN DeErr(r.err)
            ELSE visit_map(host,
                   [k \in 1..Len(r.entries) |->
                      IF k <= Len(host.fields)
                      THEN Entry(host.fields[k].name, r.entries[k].v)
                      ELSE r.entries[k]])
        Count(len) ==
            IF ~len.ok THEN DeErr("eof")
            ELSE Visit(InterfaceEntries(buf, len.pos, len.v, <<>>))
        Marker(singleton) ==
            IF ~singleton.ok THEN DeErr("eof")
            ELSE IF singleton.v # 0
            THEN DeErr("expected singleton=0 for map[interface{}]interface{} value")
            ELSE Count(read_uint(buf, singleton.pos))
    IN  Marker(read_uint(buf, 0))

\* the eager path for map[interface{}]interface{}: every entry is read into
\* a vector, which is then handed to the visitor
deserialize_interface_map(buf, host) ==
    LET Visit(r) == IF ~r.ok THEN DeErr(r.err) ELSE visit_map(host, r.entries)
        Count(len) ==
            IF ~len.ok THEN DeErr("eof")
            ELSE Visit(InterfaceEntries(buf, len.pos, len.v, <<>>))
        Marker(singleton) ==
            IF ~singleton.ok THEN DeErr("eof")
            ELSE IF singleton.v # 0
            THEN DeErr("expected singleton=0 for map[interface{}]interface{} value")
            ELSE Count(read_uint(buf, singleton.pos))
    IN  Marker(read_uint(buf, 0))

deserialize_struct(type_id, defs, buf, host) ==
    LET Marker(len) ==
            IF ~len.ok THEN DeErr("eof")
            ELSE IF len.v # 0
            THEN DeErr("neither a singleton nor a struct value")
            ELSE \* FieldValueDeserializer::deserialize_struct, which has no
                 \* type for an id never defined, and no struct to give for
                 \* a type that is not one
                 IF lookup(defs, type_id).kind = "None"
                    /\ type_id \notin WellKnownIds
                 THEN DeErr("unknown type")
                 ELSE DeErr("schema mismatch")
        Typed(t) ==
            IF t.kind = "Struct" THEN StructValueDeserializer(t, buf, host)
            ELSE IF t.kind = "Map" /\ t.elem = INTERFACE /\ t.key = INTERFACE
            THEN deserialize_interface_map(buf, host)
            ELSE Marker(read_uint(buf, 0))
    IN  Typed(lookup(defs, type_id))

(***************************************************************************)
(* ValueDeserializer, step by step.  `self` is the record of one run:      *)
(* where it stands (st), the entry point called (method), the message and  *)
(* the cursor (msg, pos), the count and the vector of the eager path       *)
(* (len, entries, key), the decoder the value was handed to (handed), the  *)
(* count of a MapMapAccess (remaining_count) and what the entry point      *)
(* returned (res).  A step gives the run after it and the calls the        *)
(* visitor received in it.                                                 *)
(***************************************************************************)
\* no ValueDeserializer is made yet
NoValueDeserializer ==
    [st |-> "none", method |-> "", type_id |-> 0, msg |-> <<>>, pos |-> 0,
     len |-> 0, entries |-> <<>>, key |-> <<>>, handed |-> "",
     remaining_count |-> 0, res |-> DeErr("")]

Stepped(self, calls) == [de |-> self, calls |-> calls]

\* a call on the visitor, or a return of its MapAccess to it
VisitCall(call, by, ret, entries) ==
    [call |-> call, by |-> by, ret |-> ret, entries |-> entries]

\* ValueDeserializer::new
ValueDeserializer_new(type_id, msg) ==
    [NoValueDeserializer EXCEPT !.st = "new", !.type_id = type_id,
                                !.msg = msg]

\* `return Err(..)`, or the `?` of a failed read: the visitor gets nothing
ReturnErr(self, method, pos, msg) ==
    Stepped([self EXCEPT !.st = "returned", !.method = method, !.pos = pos,
                         !.res = DeErr(msg)], <<>>)

\* StructValueDeserializer::new(struct_type, defs, msg) and the entry point
\* called on it: the struct decoder reads the message from the cursor, and
\* hands its accessor to the visitor
HandStruct(self, method, struct_type, host) ==
    LET Visited(res) ==
            Stepped([self EXCEPT !.st = "returned", !.method = method,
                                 !.handed = "StructValueDeserializer",
                                 !.res = res],
                    <<VisitCall("visit_map", "StructValueDeserializer", "",
                                IF res.ok THEN res.f ELSE <<>>)>>)
    IN  Visited(StructValueDeserializer(struct_type, self.msg, host))

\* one key or element of a streamed map: FieldValueDeserializer under the
\* type id, an interface value giving its concrete scalar
MapElement(type_id, buf, pos) ==
    LET Concrete(r) == [ok |-> r.ok, v |-> r.v, pos |-> r.pos]
    IN  IF type_id = INTERFACE THEN Concrete(InterfaceValue(buf, pos))
        ELSE FieldValueDeserializer(type_id, buf, pos)

\* MapValueDeserializer::deserialize_any: the count, then visit_map over a
\* MapMapAccess::new(def, defs, msg, len)
MapValueDeserializer_deserialize_any(self, method) ==
    LET Access(len) ==
            IF ~len.ok THEN ReturnErr(self, method, len.pos, "eof")
            ELSE Stepped([self EXCEPT !.st = "access", !.method = method,
                                      !.handed = "MapValueDeserializer",
                                      !.pos = len.pos, !.len = len.v,
                                      !.remaining_count = len.v],
                         <<VisitCall("visit_map", "MapMapAccess", "", <<>>)>>)
    IN  Access(read_uint(self.msg, self.pos))

\* FieldValueDeserializer::new(type_id, defs, msg) and the entry point called
\* on it, the cursor after the singleton marker: a scalar goes to the
\* visitor, a map to MapValueDeserializer, and an id that is neither
\* well-known nor defined is an UnknownType error
HandField(self, method, defs) ==
    LET Scalar(r) ==
            IF ~r.ok THEN ReturnErr(self, method, r.pos, "eof")
            ELSE Stepped([self EXCEPT !.st = "returned", !.method = method,
                                      !.handed = "FieldValueDeserializer",
                                      !.pos = r.pos, !.res = DeOk(<<r.v>>)],
                         <<VisitCall("visit_scalar", "FieldValueDeserializer",
                                     "", <<r.v>>)>>)
    IN  IF self.type_id \in {BOOL, I64, STR}
        THEN Scalar(FieldValueDeserializer(self.type_id, self.msg, self.pos))
        ELSE IF lookup(defs, self.type_id).kind = "Map"
        THEN MapValueDeserializer_deserialize_any(self, method)
        ELSE IF self.type_id \in WellKnownIds
        THEN ReturnErr(self, method, self.pos, "unsupported kind")
        ELSE ReturnErr(self, method, self.pos, "unknown type")

\* a marker read and dropped, whatever it is
singleton_marker_any(self, method, defs, msg) ==
    LET Marker(singleton) ==
            IF ~singleton.ok THEN ReturnErr(self, method, singleton.pos, "eof")
            ELSE HandField([self EXCEPT !.pos = singleton.pos], method, defs)
    IN  Marker(read_uint(self.msg, self.pos))

\* the singleton marker in front of a value that is not a struct
singleton_marker(self, method, defs, msg) ==
    LET Marker(singleton) ==
            IF ~singleton.ok THEN ReturnErr(self, method, singleton.pos, "eof")
            ELSE IF singleton.v # 0
            THEN ReturnErr(self, method, singleton.pos, msg)
            ELSE HandField([self EXCEPT !.pos = singleton.pos], method, defs)
    IN  Marker(read_uint(self.msg, self.pos))

\* ValueDeserializer::deserialize_any
ValueDeserializer_deserialize_any(self, defs, host) ==
    LET Typed(t) ==
            IF t.kind = "Struct"
            THEN HandStruct(self, "deserialize_any", t, host)
            ELSE singleton_marker(self, "deserialize_any", defs,
                                  "neither a singleton nor a struct value")
    IN  Typed(lookup(defs, self.type_id))

\* ValueDeserializer::deserialize_enum
ValueDeserializer_deserialize_enum(self, defs, host) ==
    LET Typed(t) ==
            IF t.kind = "Struct"
            THEN HandStruct(self, "deserialize_enum", t, host)
            ELSE singleton_marker(self, "deserialize_enum", defs,
                                  "neither a singleton nor a struct value")
    IN  Typed(lookup(defs, self.type_id))

\* ValueDeserializer::deserialize_struct up to the loop of the eager path:
\* the singleton marker and the count of a map[interface{}]interface{}
ValueDeserializer_deserialize_struct(self, defs, host) ==
    LET Count(len) ==
            IF ~len.ok THEN ReturnErr(self, "deserialize_struct", len.pos, "eof")
            ELSE Stepped([self EXCEPT !.st = "loop",
                                      !.method = "deserialize_struct",
                                      !.pos = len.pos, !.len = len.v], <<>>)
        Eager(singleton) ==
            IF ~singleton.ok
            THEN ReturnErr(self, "deserialize_struct", singleton.pos, "eof")
            ELSE IF singleton.v # 0
            THEN ReturnErr(self, "deserialize_struct", singleton.pos,
                     "expected singleton=0 for map[interface{}]interface{} value")
            ELSE Count(read_uint(self.msg, singleton.pos))
        Typed(t) ==
            IF t.kind = "Struct"
            THEN HandStruct(self, "deserialize_struct", t, host)
            ELSE IF t.kind = "Map" /\ t.elem = INTERFACE /\ t.key = INTERFACE
            THEN Eager(read_uint(self.msg, self.pos))
            ELSE singleton_marker(self, "deserialize_struct", defs,
                                  "neither a singleton nor a struct value")
    IN  Typed(lookup(defs, self.type_id))

\* `for _ in 0..len` ending after one entry
more_entries_first(self) == self.entries = <<>> /\ self.len > 0

\* `for _ in 0..len`: is there an entry still to read
more_entries(self) == Len(self.entries) < self.len

\* the first half of the loop body: the key of the entry
read_key(self) ==
    LET Key(key) ==
            IF ~key.ok THEN ReturnErr(self, self.method, key.pos, key.err)
            ELSE Stepped([self EXCEPT !.st = "value", !.key = key.v.s,
                                      !.pos = key.pos], <<>>)
    IN  Key(InterfaceKey(self.msg, self.pos))

\* the second half: the value, and entries.push((key, value))
read_value(self) ==
    LET Val(val) ==
            IF ~val.ok THEN ReturnErr(self, self.method, val.pos, val.err)
            ELSE Stepped([self EXCEPT !.st = "loop", !.pos = val.pos,
                            !.entries = Append(@, Entry(self.key, val.v))],
                         <<>>)
    IN  Val(InterfaceValue(self.msg, self.pos))

\* after the loop: visitor.visit_map(MapDeserializer::new(entries))
visit_entries(self, host) ==
    Stepped([self EXCEPT !.st = "returned",
                         !.res = visit_map(host, self.entries)],
            <<VisitCall("visit_map", "MapDeserializer", "", self.entries)>>)

(***************************************************************************)
(* MapMapAccess: the accessor a streamed map hands to the visitor.  `def`  *)
(* is the MapType, and the count and the cursor are in `self`.             *)
(***************************************************************************)
\* what a call of the accessor returned to the visitor
AccessReturn(self, call, ret, vals) ==
    Stepped(self, <<VisitCall(call, "MapMapAccess", ret, vals)>>)

\* next_key_seed leaving the count as it is
next_key_seed_keep(self, def) ==
    LET Key(r) ==
            IF r.ok
            THEN AccessReturn([self EXCEPT !.pos = r.pos],
                              "next_key_seed", "Some", <<r.v>>)
            ELSE AccessReturn([self EXCEPT !.pos = r.pos],
                              "next_key_seed", "Err", <<>>)
    IN  IF self.remaining_count = 0
        THEN AccessReturn(self, "next_key_seed", "None", <<>>)
        ELSE Key(MapElement(def.key, self.msg, self.pos))

\* MapMapAccess::next_key_seed: None at count 0; else the count goes down
\* by one, and then the key is read
next_key_seed(self, def) ==
    LET Key(counted, r) ==
            IF r.ok
            THEN AccessReturn([counted EXCEPT !.pos = r.pos],
                              "next_key_seed", "Some", <<r.v>>)
            ELSE AccessReturn([counted EXCEPT !.pos = r.pos],
                              "next_key_seed", "Err", <<>>)
    IN  IF self.remaining_count = 0
        THEN AccessReturn(self, "next_key_seed", "None", <<>>)
        ELSE Key([self EXCEPT !.remaining_count = @ - 1],
                 MapElement(def.key, self.msg, self.pos))

\* MapMapAccess::next_value_seed
next_value_seed(self, def) ==
    LET Val(r) ==
            IF r.ok
            THEN AccessReturn([self EXCEPT !.pos = r.pos],
                              "next_value_seed", "Ok", <<r.v>>)
            ELSE AccessReturn([self EXCEPT !.pos = r.pos],
                              "next_value_seed", "Err", <<>>)
    IN  Val(MapElement(def.elem, self.msg, self.pos))

\* MapMapAccess::size_hint
size_hint(self) ==
    AccessReturn(self, "size_hint", "Some", <<V_U64(self.remaining_count)>>)

(***************************************************************************)
(* The stream: messages in the order written.  A definition message        *)
(* carries a type under its id, a value message a body under its type id.  *)
(***************************************************************************)
DefMsg(id, def) == [kind |-> "def", id |-> id, def |-> def, body |-> <<>>]
ValueMsg(id, body) == [kind |-> "value", id |-> id, def |-> NoType, body |-> body]

RECURSIVE PendingDefs(_, _)
\* the definition messages of the ids not sent yet, in the order registered
PendingDefs(schema, pending) ==
    IF pending = {} THEN <<>>
    ELSE LET id == CHOOSE x \in pending : \A y \in pending : x >= y
         IN  <<DefMsg(id, schema[id])>> \o PendingDefs(schema, pending \ {id})

\* SerializationCtx::flush: the pending definitions, then the value message
flush(stream, schema, sentIds, type_id, value) ==
    stream \o PendingDefs(schema, DOMAIN schema \ sentIds)
           \o <<ValueMsg(type_id, value)>>

\* SerializeStruct::end that hands the value to the output without the flush
SerializeStruct_end_raw(self, stream, schema, sentIds) ==
    LET Out(ok) ==
            [inner |-> ok,
             out |-> Append(stream, ValueMsg(ok.type_id, ok.value))]
    IN  Out(end(self))

\* SerializeStruct::end: the inner end, then one flush to the output
SerializeStruct_end(self, stream, schema, sentIds) ==
    LET Flushed(ok) ==
            [inner |-> ok,
             out |-> flush(stream, schema, sentIds, ok.type_id, ok.value)]
    IN  Flushed(end(self))

\* SerializeStruct::serialize_field writing the value buffer through to the
\* output
SerializeStruct_serialize_field_through(self, stream, key, v) ==
    LET Through(inner) ==
            [inner |-> inner,
             out |-> Append(stream, ValueMsg(inner.type_id, inner.value))]
    IN  Through(serialize_field(self, key, v))

\* SerializeStruct::serialize_field: the inner serialize_field, the output
\* not touched
SerializeStruct_serialize_field(self, stream, key, v) ==
    [inner |-> serialize_field(self, key, v), out |-> stream]

\* SerializeStruct::skip_field: the inner skip_field
SerializeStruct_skip_field(self, stream, key) ==
    [inner |-> skip_field(self, key), out |-> stream]

(***************************************************************************)
(* #[derive(GobSerialize)]: the attributes of the input, and the           *)
(* schema_register the macro generates.                                    *)
(***************************************************************************)
\* one nested meta of an attribute: `name`, `name = "s"` (kind "str") or
\* `name = 64` (kind "int")
Meta(name, kind, s) == [name |-> name, kind |-> kind, s |-> s]
Attr(path, metas) == [path |-> path, metas |-> metas]

NoneStr == [some |-> FALSE, s |-> ""]
SomeStr(s) == [some |-> TRUE, s |-> s]

MapInterface == "map[interface{}]interface{}"

RECURSIVE parse_nested_meta(_, _, _)
\* Attribute::parse_nested_meta with the closure of get_interpret_as, from
\* the k-th meta on: the closure takes the value of interpret_as and leaves
\* any other meta as it is, so the parser stops with an error (dropped by
\* `let _ =`) at a value the closure did not take
parse_nested_meta(metas, k, res) ==
    IF k > Len(metas) THEN res
    ELSE IF metas[k].name = "interpret_as"
    THEN IF metas[k].kind = "str"
         THEN parse_nested_meta(metas, k + 1, SomeStr(metas[k].s))
         ELSE res
    ELSE IF metas[k].kind = "none"
    THEN parse_nested_meta(metas, k + 1, res)
    ELSE res

RECURSIVE get_interpret_as_from(_, _)
get_interpret_as_from(attrs, k) ==
    IF k > Len(attrs) THEN NoneStr
    ELSE IF attrs[k].path = "gob"
            /\ parse_nested_meta(attrs[k].metas, 1, NoneStr).some
    THEN parse_nested_meta(attrs[k].metas, 1, NoneStr)
    ELSE get_interpret_as_from(attrs, k + 1)

\* get_interpret_as
get_interpret_as(attrs) == get_interpret_as_from(attrs, 1)

\* derive_gob_serialize: which body the generated schema_register gets
derive_gob_serialize(attrs) ==
    LET interpret_as == get_interpret_as(attrs) IN
    IF interpret_as.some
    THEN IF interpret_as.s = MapInterface THEN "map" ELSE "panic"
    ELSE "struct"

\* Schema::register_type: the id of the type, a new one when it is new
register_type(schema, ty) ==
    IF \E id \in DOMAIN schema : schema[id] = ty
    THEN [schema |-> schema, id |-> CHOOSE id \in DOMAIN schema : schema[id] = ty]
    ELSE LET id == FirstUserId - Cardinality(DOMAIN schema) IN
         [schema |-> schema @@ (id :> ty), id |-> id]

\* schema_register of a primitive: its well-known id
PrimitiveId(kind) ==
    CASE kind = "I64" -> I64
      [] kind = "Str" -> STR
      [] kind = "Bool" -> BOOL

\* a host type with a derived GobSerialize
HostType(host, attrs, gobName) == [host |-> host, attrs |-> attrs, gobName |-> gobName]

\* the generated schema_register, run on a schema: [schema, id, regs], regs
\* the types handed to register_type, in call order
schema_register(ty, schema) ==
    LET Registered(def, r) ==
            [schema |-> r.schema, id |-> r.id, regs |-> <<def>>]
        Register(def) == Registered(def, register_type(schema, def))
    IN  Register(IF derive_gob_serialize(ty.attrs) = "map"
                 THEN MapType(INTERFACE, INTERFACE)
                 ELSE StructType(ty.gobName,
                        [i \in 1..Len(ty.host.fields) |->
                           StructField(ty.host.fields[i].name,
                                       PrimitiveId(ty.host.fields[i].kind))]))

\* #[gob(interpret_as = "map[interface{}]interface{}", type_id=64)]
UserAttrs ==
    <<Attr("gob", <<Meta("interpret_as", "str", MapInterface),
                    Meta("type_id", "int", "")>>)>>

TyUser == HostType(HostUser, UserAttrs, <<85, 115, 101, 114>>)
TyPoint == HostType(HostPoint, <<>>, <<80, 111, 105, 110, 116>>)

(***************************************************************************)
(* GobSerialize::schema_register of the host types of the standard         *)
(* library: primitives, Option, arrays, slices, collections, Range,        *)
(* tuples and maps.                                                        *)
(***************************************************************************)
\* a host type: its kind, the types it is written over, and the length of
\* an array
HostLeaf(kind) == [kind |-> kind, elems |-> <<>>, len |-> 0]
HostOver(kind, elems, len) == [kind |-> kind, elems |-> elems, len |-> len]

\* the kinds whose schema_register touches no schema: the primitives, and a
\* user type whose schema_register returns an error
PrimitiveKinds == {"I64", "Str", "Bool"}
LeafKinds == PrimitiveKinds \cup {"Err"}
\* the kinds over one type, and the kinds over several
UnaryKinds == {"Option", "Array", "Slice", "Vec", "Range"}
CompositeKinds == UnaryKinds \cup {"Tuple", "Map"}

\* Type::Option, Type::Seq, Type::Struct, Type::Tuple and Type::Map of the
\* schema; len is <<n>> for Some(n) and <<>> for None
GobType(kind, name, len, ids, names) ==
    [kind |-> kind, name |-> name, len |-> len, ids |-> ids, names |-> names]

\* the definition a composite host type hands to register_type, `ids` the
\* ids its children returned
TypeOf(ty, ids) ==
    CASE ty.kind = "Option" -> GobType("Option", "", <<>>, <<ids[1]>>, <<>>)
      [] ty.kind = "Array" -> GobType("Seq", "", <<ty.len>>, <<ids[1]>>, <<>>)
      [] ty.kind \in {"Slice", "Vec"} -> GobType("Seq", "", <<>>, <<ids[1]>>, <<>>)
      [] ty.kind = "Range" ->
            GobType("Struct", "Range", <<>>, <<ids[1], ids[1]>>, <<"start", "end">>)
      [] ty.kind = "Tuple" -> GobType("Tuple", "", <<>>, ids, <<>>)
      [] ty.kind = "Map" -> GobType("Map", "", <<>>, <<ids[1], ids[2]>>, <<>>)

\* one step of a registration, as the schema and the callers see it
RegEvent(op, path, ty, ok, id, err) ==
    [op |-> op, path |-> path, ty |-> ty, ok |-> ok, id |-> id, err |-> err]
NoGobType == GobType("None", "", <<>>, <<>>, <<>>)

\* a schema that accepts `cap` types, and the steps taken on it
Registration(cap) ==
    [schema |-> <<>>, cap |-> cap, log |-> <<>>, done |-> FALSE,
     ok |-> FALSE, id |-> 0, err |-> ""]
NoRegistration == Registration(0)
Logged(r, ev) == [r EXCEPT !.log = Append(@, ev)]

\* the result of a schema_register: Ok(id) or Err(err), and the schema after
Accepted(r, id) == [r EXCEPT !.ok = TRUE, !.id = id, !.err = ""]
Refused(r, err) == [r EXCEPT !.ok = FALSE, !.id = 0, !.err = err]

\* Schema::register_type on a schema that may refuse: the call is logged
\* with its outcome
Schema_register_type(r, path, def) ==
    IF Cardinality(DOMAIN r.schema) >= r.cap
          /\ ~(\E id \in DOMAIN r.schema : r.schema[id] = def)
    THEN Refused(Logged(r, RegEvent("register_type", path, def, FALSE, 0, "schema full")),
                 "schema full")
    ELSE LET Got(t) ==
                 Accepted(Logged([r EXCEPT !.schema = t.schema],
                                   RegEvent("register_type", path, def, TRUE, t.id, "")),
                            t.id)
         IN  Got(register_type(r.schema, def))

RECURSIVE GobSerialize_schema_register(_, _, _)
RECURSIVE register_children(_, _, _, _, _)
RECURSIVE register_children_reversed(_, _, _, _, _)

\* the children registered last to first
register_children_reversed(elems, k, path, r, ids) ==
    IF k > Len(elems) THEN [reg |-> Accepted(r, 0), ids |-> ids]
    ELSE LET at == Len(elems) + 1 - k
             Child(c) ==
                 IF ~c.ok THEN [reg |-> c, ids |-> ids]
                 ELSE register_children_reversed(elems, k + 1, path, c, <<c.id>> \o ids)
         IN  Child(GobSerialize_schema_register(elems[at], Append(path, at), r))

\* the `T::schema_register(schema)?` of the children from the k-th on, in
\* the order written: [reg, ids], reg the first error or the schema after
\* the last child
register_children(elems, k, path, r, ids) ==
    IF k > Len(elems) THEN [reg |-> Accepted(r, 0), ids |-> ids]
    ELSE LET Child(c) ==
                 IF ~c.ok THEN [reg |-> c, ids |-> ids]
                 ELSE register_children(elems, k + 1, path, c, Append(ids, c.id))
         IN  Child(GobSerialize_schema_register(elems[k], Append(path, k), r))

\* <T as GobSerialize>::schema_register(schema) of the type at `path` of the
\* type being registered
GobSerialize_schema_register(ty, path, r) ==
    LET Return(x) ==
            Logged(x, RegEvent("return", path, NoGobType, x.ok, x.id, x.err))
        Children(c) ==
            IF ~c.reg.ok THEN c.reg
            ELSE Schema_register_type(c.reg, path, TypeOf(ty, c.ids))
        Entered(e) ==
            CASE ty.kind = "Err" -> Return(Refused(e, "custom"))
              [] ty.kind \in PrimitiveKinds ->
                    Return(Accepted(e, PrimitiveId(ty.kind)))
              [] OTHER ->
                    Return(Children(register_children(ty.elems, 1, path, e, <<>>)))
    IN  Entered(Logged(r, RegEvent("call", path, NoGobType, FALSE, 0, "")))

(***************************************************************************)
(* State.                                                                  *)
(***************************************************************************)
VARIABLES
    schema,     \* the writer's schema
    sent,       \* the ids whose definition message is written
    ser,        \* the SerializeStructValue inside the SerializeStruct
    out,        \* the output: the stream written so far
    calls,      \* the calls made on the emitter, with what each returned
    written,    \* the host values given to StreamSerializer::serialize
    rpos,       \* the messages the StreamDeserializer has consumed
    defs,       \* the reader's type table
    decoded,    \* what each StreamDeserializer::deserialize returned
    input,      \* the attributes of the type given to #[derive(GobSerialize)]
    generated,  \* the schema_register the derive generated, once it has run
    de,         \* the ValueDeserializer over one message, as far as it has run
    visitor,    \* the calls the serde visitor has received from it
    types,      \* the host types written so far, the last one on top
    registration, \* GobSerialize::schema_register of the top type, once it has run
    twin        \* a second ValueDeserializer, over the same message under other metadata

vars ==
    <<schema, sent, ser, out, calls, written, rpos, defs, decoded, input,
      generated, de, visitor, types, registration, twin>>
readVars == <<written, rpos, defs, decoded>>
deriveVars == <<input, generated>>
valueVars == <<de, visitor>>
registerVars == <<types, registration>>
twinVars == <<twin>>

\* no second run: `st` is where the pair of runs stands, `pairs`, `metas` and
\* `cut` are what the writer sent and what the metadata of each interface
\* value was changed to, `de` and `visitor` the second run and its visitor
NoTwin ==
    [st |-> "none", pairs |-> <<>>, metas |-> <<>>, cut |-> 0, changes |-> 0,
     de |-> NoValueDeserializer, visitor |-> <<>>]

\* the derive has not run
NotGenerated == [outcome |-> "none", regs |-> <<>>]

(***************************************************************************)
(* The types of the emitter's schema.                                      *)
(***************************************************************************)
PointId == FirstUserId
UserId == FirstUserId - 1
SeqId == FirstUserId - 2
UnknownId == FirstUserId - 3

Point == StructType(<<80, 111, 105, 110, 116>>,
            <<StructField(S_X, I64), StructField(S_Y, I64), StructField(S_Z, I64)>>)

EmitSchema ==
    (PointId :> Point) @@ (UserId :> MapType(INTERFACE, INTERFACE))
        @@ (SeqId :> SeqType(I64))

\* what a caller may pass to serialize_field
Keys == {S_uid, S_uname}
Values == {V_I64(0), V_I64(1), V_Str(S_t)}

Call(op, key, v, before, after) ==
    [op |-> op, key |-> key, v |-> v,
     res |-> after.st,
     is_empty |-> IF op = "field" /\ before.mode = "Struct"
                     /\ before.current_field_idx < Len(before.fields)
                  THEN FieldValueSerializer(
                         before.fields[before.current_field_idx + 1].id, v).is_empty
                  ELSE FALSE]

(***************************************************************************)
(* Spec: one SerializeStruct driven by an arbitrary caller.                *)
(***************************************************************************)
Init ==
    /\ schema = EmitSchema
    /\ sent = {}
    /\ ser = NoEmitter
    /\ out = <<>>
    /\ calls = <<>>
    /\ written = <<>>
    /\ rpos = 0
    /\ defs = <<>>
    /\ decoded = <<>>
    /\ input = <<>>
    /\ generated = NotGenerated
    /\ de = NoValueDeserializer
    /\ visitor = <<>>
    /\ types = <<>>
    /\ registration = NoRegistration
    /\ twin = NoTwin

\* SerializeStruct::new
New(type_id, len) ==
    /\ ser.st = "none"
    /\ ser' = new(schema, type_id, len)
    /\ UNCHANGED <<schema, sent, out, calls>>
    /\ UNCHANGED readVars
    /\ UNCHANGED deriveVars
    /\ UNCHANGED valueVars
    /\ UNCHANGED registerVars
    /\ UNCHANGED twinVars

\* SerializeStruct::serialize_field
SerializeField(key, v) ==
    /\ ser.st = "open"
    /\ Len(calls) < MaxCalls
    /\ LET Returned(r) ==
               /\ ser' = r.inner
               /\ out' = r.out
       IN  Returned(SerializeStruct_serialize_field(ser, out, key, v))
    /\ calls' = Append(calls, Call("field", key, v, ser, ser'))
    /\ UNCHANGED <<schema, sent>>
    /\ UNCHANGED readVars
    /\ UNCHANGED deriveVars
    /\ UNCHANGED valueVars
    /\ UNCHANGED registerVars
    /\ UNCHANGED twinVars

\* SerializeStruct::skip_field
SkipField(key) ==
    /\ ser.st = "open"
    /\ Len(calls) < MaxCalls
    /\ LET Returned(r) ==
               /\ ser' = r.inner
               /\ out' = r.out
       IN  Returned(SerializeStruct_skip_field(ser, out, key))
    /\ calls' = Append(calls, Call("skip", <<>>, V_I64(0), ser, ser'))
    /\ UNCHANGED <<schema, sent>>
    /\ UNCHANGED readVars
    /\ UNCHANGED deriveVars
    /\ UNCHANGED valueVars
    /\ UNCHANGED registerVars
    /\ UNCHANGED twinVars

\* SerializeStruct::end
End ==
    LET Ended(r) ==
            /\ ser' = r.inner
            /\ out' = r.out
    IN  /\ ser.st = "open"
        /\ Ended(SerializeStruct_end(ser, out, schema, sent))
        /\ sent' = DOMAIN schema
        /\ UNCHANGED <<schema, calls>>
        /\ UNCHANGED readVars
        /\ UNCHANGED deriveVars
        /\ UNCHANGED valueVars
        /\ UNCHANGED registerVars
        /\ UNCHANGED twinVars

Next ==
    \/ \E type_id \in {PointId, UserId, SeqId, UnknownId}, len \in 0..MaxLen :
          New(type_id, len)
    \/ \E key \in Keys, v \in Values : SerializeField(key, v)
    \/ \E key \in Keys : SkipField(key)
    \/ End

Spec == Init /\ [][Next]_vars

(***************************************************************************)
(* SpecStream: a StreamSerializer writing values of derived types, and a   *)
(* StreamDeserializer reading the stream back.                             *)
(***************************************************************************)
\* top-level values written to one stream
MaxValues == 2

HostValue(type, f) == [type |-> type, f |-> f]

UserValues ==
    {HostValue("User", <<V_I64(uid), V_Str(uname), V_Str(S_e), V_Str(S_1),
                         V_Bool(has_2fa)>>) :
        uid \in {0, 1, -1}, uname \in {<<>>, S_t}, has_2fa \in BOOLEAN}

PointValues ==
    {HostValue("Point", <<V_I64(x), V_I64(y), V_I64(z)>>) :
        x \in {0, 1}, y \in {0, 2}, z \in {0, 3}}

TyOf(type) == IF type = "User" THEN TyUser ELSE TyPoint

RECURSIVE SerializeFields(_, _, _, _)
\* the derived Serialize: serialize_field for each field in declaration
\* order, up to the first Err
SerializeFields(self, fields, f, k) ==
    IF k > Len(fields) \/ self.st # "open" THEN self
    ELSE SerializeFields(serialize_field(self, fields[k].name, f[k]),
                         fields, f, k + 1)

\* StreamSerializer::serialize of a derived struct: schema_register, then
\* serialize_struct(name, len), the fields and end; [schema, sent, out, ok]
StreamSerializer_serialize(v, schema0, sent0, stream) ==
    LET Ended(reg, e1) ==
            IF e1.st # "open"
            THEN [schema |-> reg.schema, sent |-> sent0, out |-> stream,
                  ok |-> FALSE]
            ELSE [schema |-> reg.schema, sent |-> DOMAIN reg.schema,
                  out |-> SerializeStruct_end(e1, stream, reg.schema, sent0).out,
                  ok |-> TRUE]
        Fields(ty, reg, e0) ==
            Ended(reg, SerializeFields(e0, ty.host.fields, v.f, 1))
        Registered(ty, reg) ==
            Fields(ty, reg, new(reg.schema, reg.id, Len(ty.host.fields)))
        Typed(ty) == Registered(ty, schema_register(ty, schema0))
    IN  Typed(TyOf(v.type))

RECURSIVE ReadDefs(_, _, _)
\* the definition messages from `pos` on, installed: [pos, defs]
ReadDefs(stream, pos, table) ==
    IF pos < Len(stream) /\ stream[pos + 1].kind = "def"
    THEN ReadDefs(stream, pos + 1,
                  (stream[pos + 1].id :> stream[pos + 1].def) @@ table)
    ELSE [pos |-> pos, defs |-> table]

InitStream ==
    /\ schema = <<>>
    /\ sent = {}
    /\ ser = NoEmitter
    /\ out = <<>>
    /\ calls = <<>>
    /\ written = <<>>
    /\ rpos = 0
    /\ defs = <<>>
    /\ decoded = <<>>
    /\ input = <<>>
    /\ generated = NotGenerated
    /\ de = NoValueDeserializer
    /\ visitor = <<>>
    /\ types = <<>>
    /\ registration = NoRegistration
    /\ twin = NoTwin

\* StreamSerializer::serialize(&v)
StreamSerialize(v) ==
    LET Returned(r) ==
            /\ schema' = r.schema
            /\ sent' = r.sent
            /\ out' = r.out
    IN  /\ Len(written) < MaxValues
        /\ Returned(StreamSerializer_serialize(v, schema, sent, out))
        /\ written' = Append(written, v)
        /\ UNCHANGED <<ser, calls, rpos, defs, decoded>>
        /\ UNCHANGED deriveVars
        /\ UNCHANGED valueVars
        /\ UNCHANGED registerVars
        /\ UNCHANGED twinVars

\* StreamDeserializer::deserialize::<T>(), T the type of the value written
StreamDeserialize ==
    LET Value(d) ==
            /\ d.pos < Len(out)
            /\ defs' = d.defs
            /\ rpos' = d.pos + 1
            /\ decoded' = Append(decoded,
                  deserialize_struct(out[d.pos + 1].id, d.defs,
                      out[d.pos + 1].body,
                      TyOf(written[Len(decoded) + 1].type).host))
    IN  /\ Len(decoded) < Len(written)
        /\ Value(ReadDefs(out, rpos, defs))
        /\ UNCHANGED <<schema, sent, ser, out, calls, written>>
        /\ UNCHANGED deriveVars
        /\ UNCHANGED valueVars
        /\ UNCHANGED registerVars
        /\ UNCHANGED twinVars

NextStream ==
    \/ \E v \in UserValues \cup PointValues : StreamSerialize(v)
    \/ StreamDeserialize

SpecStream == InitStream /\ [][NextStream]_vars

(***************************************************************************)
(* SpecDecode: a StreamDeserializer reading one value: a map of interface  *)
(* to interface written by a Go program (the session of the Gitea test),   *)
(* read into User, or a Point written by the StreamSerializer.             *)
(***************************************************************************)
\* values a StreamSerializer writes to the stream read
MaxWires == 1
\* entries in one wire map
MaxEntries == 6

\* the id the Go writer gave its map type
GoMapId == 64

\* the entries a wire map is made of: one per field of User, under the
\* field's serialized name, and one under a key User does not have
WireCandidates ==
    {Entry(S_uid, V_I64(1)), Entry(S_uname, V_Str(S_t)),
     Entry(S_email, V_Str(S_e)), Entry(S_old_uid, V_Str(S_1)),
     Entry(S_has_2fa, V_Bool(TRUE)), Entry(S_X, V_I64(-1))}

RECURSIVE Wires(_)
\* the sequences of at most n candidates, no key twice: the entries of a map
Wires(n) ==
    IF n = 0 THEN {<<>>}
    ELSE LET Longer(W) ==
                 W \cup UNION {
                     {Append(w, e) :
                        e \in {c \in WireCandidates :
                                 \A j \in 1..Len(w) : w[j].key # c.key}} :
                     w \in {x \in W : Len(x) = n - 1}}
         IN  Longer(Wires(n - 1))

WireSeqs == Wires(MaxEntries)

RECURSIVE GoEntries(_, _)
\* the entries from the k-th on as the Go writer lays them out: the key and
\* the value, each an interface value
GoEntries(entries, k) ==
    IF k > Len(entries) THEN <<>>
    ELSE InterfaceBytes(V_Str(entries[k].key)) \o InterfaceBytes(entries[k].v)
           \o GoEntries(entries, k + 1)

\* the body of the value message of a map[interface{}]interface{}
GoInterfaceMap(entries) ==
    <<0>> \o EncUint(Len(entries)) \o GoEntries(entries, 1)

InitDecode ==
    /\ schema = <<>>
    /\ sent = {}
    /\ ser = NoEmitter
    /\ out = <<>>
    /\ calls = <<>>
    /\ written = <<>>
    /\ rpos = 0
    /\ defs = <<>>
    /\ decoded = <<>>
    /\ input = <<>>
    /\ generated = NotGenerated
    /\ de = NoValueDeserializer
    /\ visitor = <<>>
    /\ types = <<>>
    /\ registration = NoRegistration
    /\ twin = NoTwin

\* the reader is made over a captured session of the Go writer, the whole
\* stream: the definition of its map type, then the value message;
\* `written` keeps the entries
Receive(entries) ==
    /\ out = <<>>
    /\ out' = out \o <<DefMsg(GoMapId, MapType(INTERFACE, INTERFACE)),
                       ValueMsg(GoMapId, GoInterfaceMap(entries))>>
    /\ written' = Append(written, HostValue("User", entries))
    /\ UNCHANGED <<schema, sent, ser, calls, rpos, defs, decoded>>
    /\ UNCHANGED deriveVars
    /\ UNCHANGED valueVars
    /\ UNCHANGED registerVars
    /\ UNCHANGED twinVars

\* a Point arrives from a StreamSerializer, which writes to a stream of its
\* own and not after a captured session
WritePoint(v) ==
    /\ Len(written) < MaxWires
    /\ \A j \in 1..Len(out) : out[j].id # GoMapId
    /\ StreamSerialize(v)

NextDecode ==
    \/ \E entries \in WireSeqs : Receive(entries)
    \/ \E v \in PointValues : WritePoint(v)
    \/ StreamDeserialize

SpecDecode == InitDecode /\ [][NextDecode]_vars

(***************************************************************************)
(* SpecDerive: #[derive(GobSerialize)] on User under attributes written    *)
(* one at a time, then the generated schema_register run on an empty       *)
(* schema.                                                                 *)
(***************************************************************************)
\* attributes on the type
MaxAttrs == 2
\* nested metas in one attribute
MaxMetas == 3

AttrPaths == {"gob", "serde"}

\* interpret_as = "map[interface{}]interface{}", interpret_as = "struct",
\* type_id = 64 and a bare word
NestedMetas ==
    {Meta("interpret_as", "str", MapInterface),
     Meta("interpret_as", "str", "struct"),
     Meta("type_id", "int", ""),
     Meta("transparent", "none", "")}

InitDerive ==
    /\ schema = <<>>
    /\ sent = {}
    /\ ser = NoEmitter
    /\ out = <<>>
    /\ calls = <<>>
    /\ written = <<>>
    /\ rpos = 0
    /\ defs = <<>>
    /\ decoded = <<>>
    /\ input = <<>>
    /\ generated = NotGenerated
    /\ de = NoValueDeserializer
    /\ visitor = <<>>
    /\ types = <<>>
    /\ registration = NoRegistration
    /\ twin = NoTwin

\* one more attribute on the type: #[path()]
AddAttr(path) ==
    /\ generated = NotGenerated
    /\ Len(input) < MaxAttrs
    /\ input' = Append(input, Attr(path, <<>>))
    /\ UNCHANGED <<schema, sent, ser, out, calls, generated>>
    /\ UNCHANGED readVars
    /\ UNCHANGED valueVars
    /\ UNCHANGED registerVars
    /\ UNCHANGED twinVars

\* one more nested meta in the last attribute
AddMeta(meta) ==
    /\ generated = NotGenerated
    /\ input # <<>>
    /\ Len(input[Len(input)].metas) < MaxMetas
    /\ input' = [input EXCEPT ![Len(input)].metas = Append(@, meta)]
    /\ UNCHANGED <<schema, sent, ser, out, calls, generated>>
    /\ UNCHANGED readVars
    /\ UNCHANGED valueVars
    /\ UNCHANGED registerVars
    /\ UNCHANGED twinVars

\* the macro expands, and what it generated runs on the schema: a panic of
\* the macro generates nothing
Derive ==
    LET Ran(r) ==
            /\ schema' = r.schema
            /\ generated' = [outcome |-> derive_gob_serialize(input),
                             regs |-> r.regs]
    IN  /\ generated = NotGenerated
        /\ IF derive_gob_serialize(input) = "panic"
           THEN /\ generated' = [outcome |-> "panic", regs |-> <<>>]
                /\ UNCHANGED schema
           ELSE Ran(schema_register(
                      HostType(HostUser, input, TyUser.gobName), schema))
        /\ UNCHANGED <<sent, ser, out, calls, input>>
        /\ UNCHANGED readVars
        /\ UNCHANGED valueVars
        /\ UNCHANGED registerVars
        /\ UNCHANGED twinVars

NextDerive ==
    \/ \E path \in AttrPaths : AddAttr(path)
    \/ \E meta \in NestedMetas : AddMeta(meta)
    \/ Derive

SpecDerive == InitDerive /\ [][NextDerive]_vars

(***************************************************************************)
(* SpecValue: one ValueDeserializer over one value message, through each   *)
(* of its entry points.  The message is what a Go writer sent for a        *)
(* map[interface{}]interface{}, whole or cut short, or the body of a       *)
(* struct, a scalar or a map of strings, under an id the type table has    *)
(* or does not have.                                                       *)
(***************************************************************************)
\* entries in one wire map
MaxPairs == 2

\* an interface value as the Go writer describes it: the name and the id
\* of the concrete type, the body, and the scalar the body stands for
\* (None when the name or the body is not one the reader takes)
GoValue(name, id, body, v) == [name |-> name, id |-> id, body |-> body, v |-> v]
GoPair(key, val) == [key |-> key, val |-> val]

GoString(bytes) == GoValue(S_string, STR, EncBytes(bytes), V_Str(bytes))

\* f64 1.0: the bits 3FF0 0000 0000 0000, sent byte-reversed as F03F
GoOne == GoValue(S_float64, F64, EncUint(240 * 256 + 63),
                 V_F64(<<63, 240, 0, 0, 0, 0, 0, 0>>))

\* a length-counted byte that is not valid UTF-8
NotUtf8 == <<1, 255>>

GoPairs ==
    {GoPair(GoString(S_uid), GoValue(S_int64, I64, EncInt(-1), V_I64(-1))),
     GoPair(GoString(S_uname), GoString(S_t)),
     GoPair(GoString(S_has_2fa), GoValue(S_bool, BOOL, EncBool(TRUE), V_Bool(TRUE))),
     GoPair(GoString(S_X), GoValue(S_uint64, U64, EncUint(200), V_U64(200))),
     GoPair(GoString(S_Y), GoOne),
     \* a Go int, a type name the reader does not take
     GoPair(GoString(S_Z), GoValue(S_int, I64, EncInt(1), None)),
     \* a key that is an int64
     GoPair(GoValue(S_int64, I64, EncInt(1), None), GoString(S_t)),
     \* a key, a value and a type name that are not UTF-8
     GoPair(GoValue(S_string, STR, NotUtf8, None), GoString(S_t)),
     GoPair(GoString(S_uname), GoValue(S_string, STR, NotUtf8, None)),
     GoPair(GoString(S_uid), GoValue(<<255>>, I64, EncInt(1), None))}

\* an interface value on the wire: the type name, the type id, then the
\* value as a nested message (byte count, singleton marker, body)
GoInterface(g) ==
    EncBytes(g.name) \o EncInt(g.id) \o EncUint(Len(g.body) + 1) \o <<0>>
        \o g.body

RECURSIVE GoPairBytes(_, _)
GoPairBytes(pairs, k) ==
    IF k > Len(pairs) THEN <<>>
    ELSE GoInterface(pairs[k].key) \o GoInterface(pairs[k].val)
           \o GoPairBytes(pairs, k + 1)

\* the body of the value message: the singleton marker, the count, the pairs
GoMapBody(singleton, pairs) ==
    <<singleton>> \o EncUint(Len(pairs)) \o GoPairBytes(pairs, 1)

RECURSIVE PairSeqs(_)
\* the sequences of at most n pairs
PairSeqs(n) ==
    IF n = 0 THEN {<<>>}
    ELSE LET Longer(W) ==
                 W \cup UNION {{Append(w, e) : e \in GoPairs} :
                               w \in {x \in W : Len(x) = n - 1}}
         IN  Longer(PairSeqs(n - 1))

\* the id of a map[string]int64
StrMapId == FirstUserId - 4

\* the reader's type table
ValueDefs ==
    (PointId :> Point) @@ (GoMapId :> MapType(INTERFACE, INTERFACE))
        @@ (StrMapId :> MapType(STR, I64))

ValueMessage(type_id, pairs, body) ==
    [type_id |-> type_id, pairs |-> pairs, body |-> body]

\* the messages of a wire map: its body whole or cut short at any byte, and
\* its body under a singleton marker that is not 0
MapMessages(type_id, pairs) ==
    {ValueMessage(type_id, pairs, SubSeq(GoMapBody(0, pairs), 1, cut)) :
        cut \in 0..Len(GoMapBody(0, pairs))}
      \cup {ValueMessage(type_id, pairs, GoMapBody(1, pairs))}

\* the bodies of a Point, of scalars and of a map[string]int64
PlainBodies ==
    {<<1>> \o EncInt(1) \o <<0>>,
     <<0>> \o EncInt(-1),
     <<0>> \o EncBytes(S_t),
     <<0>> \o EncUint(1) \o EncBytes(S_t) \o EncInt(1),
     <<2>> \o EncInt(2) \o <<0>>,
     <<0>>,
     <<>>}

\* the value messages the caller may hold, the maps of at most n pairs
ValueMessages(n) ==
    UNION {MapMessages(type_id, pairs) :
             type_id \in {GoMapId, UnknownId}, pairs \in PairSeqs(n)}
      \cup {ValueMessage(type_id, <<>>, body) :
              type_id \in {PointId, GoMapId, StrMapId, UnknownId, GoMapId + 1,
                           BOOL, I64, STR, F64},
              body \in PlainBodies}

\* the host type the caller deserializes into
HostFor(type_id) == IF type_id = PointId THEN HostPoint ELSE HostUser

InitValue ==
    /\ schema = <<>>
    /\ sent = {}
    /\ ser = NoEmitter
    /\ out = <<>>
    /\ calls = <<>>
    /\ written = <<>>
    /\ rpos = 0
    /\ defs = ValueDefs
    /\ decoded = <<>>
    /\ input = <<>>
    /\ generated = NotGenerated
    /\ de = NoValueDeserializer
    /\ visitor = <<>>
    /\ types = <<>>
    /\ registration = NoRegistration
    /\ twin = NoTwin

\* a step of the run: the run after it, and the visitor's calls after those
\* it had
Ran(r) ==
    /\ de' = r.de
    /\ visitor' = visitor \o r.calls
    /\ UNCHANGED <<schema, sent, ser, out, calls, written, rpos, defs, decoded>>
    /\ UNCHANGED deriveVars
    /\ UNCHANGED registerVars
    /\ UNCHANGED twinVars

\* the driver reads a value message and makes the ValueDeserializer;
\* `written` keeps what the writer sent
MakeValueDeserializer ==
    /\ de.st = "none"
    /\ \E m \in ValueMessages(MaxPairs) :
          /\ de' = ValueDeserializer_new(m.type_id, m.body)
          /\ written' = <<m>>
    /\ UNCHANGED <<schema, sent, ser, out, calls, rpos, defs, decoded, visitor>>
    /\ UNCHANGED deriveVars
    /\ UNCHANGED registerVars
    /\ UNCHANGED twinVars

DeserializeAny ==
    /\ de.st = "new"
    /\ Ran(ValueDeserializer_deserialize_any(de, defs, HostFor(de.type_id)))

DeserializeEnum ==
    /\ de.st = "new"
    /\ Ran(ValueDeserializer_deserialize_enum(de, defs, HostFor(de.type_id)))

DeserializeStruct ==
    /\ de.st = "new"
    /\ Ran(ValueDeserializer_deserialize_struct(de, defs, HostFor(de.type_id)))

ReadKey ==
    /\ de.st = "loop"
    /\ more_entries(de)
    /\ Ran(read_key(de))

ReadValue ==
    /\ de.st = "value"
    /\ Ran(read_value(de))

VisitMap ==
    /\ de.st = "loop"
    /\ ~more_entries(de)
    /\ Ran(visit_entries(de, HostFor(de.type_id)))

NextValue ==
    \/ MakeValueDeserializer
    \/ DeserializeAny
    \/ DeserializeEnum
    \/ DeserializeStruct
    \/ ReadKey
    \/ ReadValue
    \/ VisitMap

SpecValue == InitValue /\ [][NextValue]_vars

(***************************************************************************)
(* SpecAccess: a map at the root read through deserialize_any, which hands *)
(* the visitor a MapMapAccess; the visitor calls next_key_seed,            *)
(* next_value_seed and size_hint as it likes.                              *)
(***************************************************************************)
\* calls a visitor makes on the accessor
MaxVisits == 4

\* the pairs of a map[string]int64
StrPairs == {<<S_t, 1>>, <<S_e, -1>>}

RECURSIVE StrPairSeqs(_)
StrPairSeqs(n) ==
    IF n = 0 THEN {<<>>}
    ELSE LET Longer(W) ==
                 W \cup UNION {{Append(w, e) : e \in StrPairs} :
                               w \in {x \in W : Len(x) = n - 1}}
         IN  Longer(StrPairSeqs(n - 1))

RECURSIVE StrPairBytes(_, _)
StrPairBytes(pairs, k) ==
    IF k > Len(pairs) THEN <<>>
    ELSE EncBytes(pairs[k][1]) \o EncInt(pairs[k][2])
           \o StrPairBytes(pairs, k + 1)

\* the body of the value message of a map[string]int64
StrMapBody(pairs) == <<0>> \o EncUint(Len(pairs)) \o StrPairBytes(pairs, 1)

\* the messages a map arrives in: a map[string]int64 whole or cut short at
\* any byte, and a map of interfaces, whole
AccessMessages(n) ==
    UNION {{ValueMessage(StrMapId, pairs, SubSeq(StrMapBody(pairs), 1, cut)) :
              cut \in 0..Len(StrMapBody(pairs))} :
           pairs \in StrPairSeqs(n)}
      \cup {ValueMessage(GoMapId, pairs, GoMapBody(0, pairs)) :
              pairs \in PairSeqs(n)}

InitAccess ==
    /\ schema = <<>>
    /\ sent = {}
    /\ ser = NoEmitter
    /\ out = <<>>
    /\ calls = <<>>
    /\ written = <<>>
    /\ rpos = 0
    /\ defs = ValueDefs
    /\ decoded = <<>>
    /\ input = <<>>
    /\ generated = NotGenerated
    /\ de = NoValueDeserializer
    /\ visitor = <<>>
    /\ types = <<>>
    /\ registration = NoRegistration
    /\ twin = NoTwin

\* the visitor is handed the accessor: ValueDeserializer::deserialize_any
\* run over the message; `written` keeps what the writer sent
VisitStreamedMap ==
    LET Handed(r) ==
            /\ de' = r.de
            /\ visitor' = visitor \o r.calls
    IN  /\ de.st = "none"
        /\ \E m \in AccessMessages(MaxPairs) :
              /\ written' = <<m>>
              /\ Handed(ValueDeserializer_deserialize_any(
                            ValueDeserializer_new(m.type_id, m.body), defs,
                            HostFor(m.type_id)))
        /\ UNCHANGED <<schema, sent, ser, out, calls, rpos, defs, decoded>>
        /\ UNCHANGED deriveVars
        /\ UNCHANGED registerVars
        /\ UNCHANGED twinVars

NextKeySeed ==
    /\ de.st = "access"
    /\ Len(visitor) <= MaxVisits
    /\ Ran(next_key_seed(de, lookup(defs, de.type_id)))

NextValueSeed ==
    /\ de.st = "access"
    /\ Len(visitor) <= MaxVisits
    /\ Ran(next_value_seed(de, lookup(defs, de.type_id)))

SizeHint ==
    /\ de.st = "access"
    /\ Len(visitor) <= MaxVisits
    /\ Ran(size_hint(de))

NextAccess ==
    \/ VisitStreamedMap
    \/ NextKeySeed
    \/ NextValueSeed
    \/ SizeHint

SpecAccess == InitAccess /\ [][NextAccess]_vars

(***************************************************************************)
(* A caller that writes host types and registers one of them.              *)
(***************************************************************************)
MaxNodes == 4
MaxCap == 2
ArrayLens == {0, 2}
\* the leaves the caller writes
WrittenLeaves == {"I64", "Str", "Err"}

RECURSIVE Nodes(_)
RECURSIVE NodesOf(_, _, _)
\* how many types a host type is written with
Nodes(ty) == NodesOf(ty.elems, 1, 1)
NodesOf(elems, k, n) ==
    IF k > Len(elems) THEN n ELSE NodesOf(elems, k + 1, n + Nodes(elems[k]))

\* the types on the stack together
Written == NodesOf(types, 1, 0)

InitRegister ==
    /\ schema = <<>>
    /\ sent = {}
    /\ ser = NoEmitter
    /\ out = <<>>
    /\ calls = <<>>
    /\ written = <<>>
    /\ rpos = 0
    /\ defs = <<>>
    /\ decoded = <<>>
    /\ input = <<>>
    /\ generated = NotGenerated
    /\ de = NoValueDeserializer
    /\ visitor = <<>>
    /\ types = <<>>
    /\ registration = NoRegistration
    /\ twin = NoTwin

RegisterFrame ==
    /\ UNCHANGED <<schema, sent, ser, out, calls>>
    /\ UNCHANGED twinVars
    /\ UNCHANGED readVars
    /\ UNCHANGED deriveVars
    /\ UNCHANGED valueVars

\* a primitive, or a type whose schema_register fails
WriteLeaf ==
    /\ ~registration.done
    /\ Written < MaxNodes
    /\ \E kind \in WrittenLeaves : types' = Append(types, HostLeaf(kind))
    /\ UNCHANGED registration
    /\ RegisterFrame

\* Option<T>, [T; N], [T], Vec<T> or Range<T> over the type on top
WriteOver ==
    /\ ~registration.done
    /\ Len(types) >= 1
    /\ Written < MaxNodes
    /\ \E kind \in UnaryKinds :
         \E len \in (IF kind = "Array" THEN ArrayLens ELSE {0}) :
            types' = [types EXCEPT ![Len(types)] = HostOver(kind, <<@>>, len)]
    /\ UNCHANGED registration
    /\ RegisterFrame

\* a tuple of the n types on top
WriteTuple ==
    /\ ~registration.done
    /\ Written < MaxNodes
    /\ \E n \in 1..Len(types) :
         LET below == Len(types) - n IN
         types' = Append(SubSeq(types, 1, below),
                         HostOver("Tuple", SubSeq(types, below + 1, Len(types)), 0))
    /\ UNCHANGED registration
    /\ RegisterFrame

\* a map from the type below the top to the type on top
WriteMap ==
    /\ ~registration.done
    /\ Len(types) >= 2
    /\ Written < MaxNodes
    /\ LET below == Len(types) - 2 IN
       types' = Append(SubSeq(types, 1, below),
                       HostOver("Map", SubSeq(types, below + 1, Len(types)), 0))
    /\ UNCHANGED registration
    /\ RegisterFrame

\* T::schema_register(&mut schema) of the type on top
Register ==
    /\ ~registration.done
    /\ Len(types) >= 1
    /\ \E cap \in 0..MaxCap :
         LET Ran0(r) == registration' = [r EXCEPT !.done = TRUE]
         IN  Ran0(GobSerialize_schema_register(types[Len(types)], <<>>, Registration(cap)))
    /\ UNCHANGED types
    /\ RegisterFrame

NextRegister ==
    \/ WriteLeaf
    \/ WriteOver
    \/ WriteTuple
    \/ WriteMap
    \/ Register

SpecRegister == InitRegister /\ [][NextRegister]_vars

(***************************************************************************)
(* SpecTwin: one wire map read twice by the eager path of                  *)
(* ValueDeserializer::deserialize_struct, once as the writer sent it and   *)
(* once with the type id, the byte count or the singleton marker of some   *)
(* key or value changed to another varint of the same length.              *)
(***************************************************************************)
\* fields changed between the two wires
MaxChanges == 1

\* the nested-message metadata of one interface value
GoMeta(id, byte_count, singleton) ==
    [id |-> id, byte_count |-> byte_count, singleton |-> singleton]

\* the metadata the writer sends for a value
HonestMeta(g) == GoMeta(g.id, Len(g.body) + 1, 0)
HonestMetas(pairs) ==
    [k \in 1..Len(pairs) |->
        [key |-> HonestMeta(pairs[k].key), val |-> HonestMeta(pairs[k].val)]]

\* an interface value on the wire under the metadata m
TwinInterface(g, m) ==
    EncBytes(g.name) \o EncInt(m.id) \o EncUint(m.byte_count)
        \o EncUint(m.singleton) \o g.body

RECURSIVE TwinPairBytes(_, _, _)
TwinPairBytes(pairs, metas, k) ==
    IF k > Len(pairs) THEN <<>>
    ELSE TwinInterface(pairs[k].key, metas[k].key)
           \o TwinInterface(pairs[k].val, metas[k].val)
           \o TwinPairBytes(pairs, metas, k + 1)

\* the body of the value message, whole and cut after `cut` bytes
TwinMapBody(pairs, metas) ==
    <<0>> \o EncUint(Len(pairs)) \o TwinPairBytes(pairs, metas, 1)
TwinBody(pairs, metas, cut) == SubSeq(TwinMapBody(pairs, metas), 1, cut)

\* the pairs the writer may send: readable ones, a value of a type name the
\* reader does not take, and a key that is an int64
TwinPairs ==
    {GoPair(GoString(S_uid), GoValue(S_int64, I64, EncInt(-1), V_I64(-1))),
     GoPair(GoString(S_uname), GoString(S_t)),
     GoPair(GoString(S_Z), GoValue(S_int, I64, EncInt(1), None)),
     GoPair(GoValue(S_int64, I64, EncInt(1), None), GoString(S_t))}

RECURSIVE TwinPairSeqs(_)
TwinPairSeqs(n) ==
    IF n = 0 THEN {<<>>}
    ELSE LET Longer(W) ==
                 W \cup UNION {{Append(w, e) : e \in TwinPairs} :
                               w \in {x \in W : Len(x) = n - 1}}
         IN  Longer(TwinPairSeqs(n - 1))

\* what a field of the metadata may be changed to: an id of another type, of
\* no type and of two bytes; a byte count of nothing, of more than the
\* message holds and of two bytes; a marker that is not 0
MetaFields == {"id", "byte_count", "singleton"}
OtherIds == {STR, I64, 33, GoMapId}
OtherCounts == {0, 100, 200}
OtherSingletons == {0, 1, 5}
OtherValues(field) ==
    CASE field = "id" -> OtherIds
      [] field = "byte_count" -> OtherCounts
      [] field = "singleton" -> OtherSingletons

\* the varint of a field of the metadata
MetaBytes(field, v) == IF field = "id" THEN EncInt(v) ELSE EncUint(v)

\* the field of the metadata m
MetaField(m, field) ==
    CASE field = "id" -> m.id
      [] field = "byte_count" -> m.byte_count
      [] field = "singleton" -> m.singleton

\* m with the field set to v
WithMetaField(m, field, v) ==
    CASE field = "id" -> [m EXCEPT !.id = v]
      [] field = "byte_count" -> [m EXCEPT !.byte_count = v]
      [] field = "singleton" -> [m EXCEPT !.singleton = v]

\* one step of the eager path of deserialize_struct, by where the run stands
EagerStep(self, tdefs, host) ==
    CASE self.st = "new" -> ValueDeserializer_deserialize_struct(self, tdefs, host)
      [] self.st = "loop" /\ more_entries(self) -> read_key(self)
      [] self.st = "value" -> read_value(self)
      [] self.st = "loop" /\ ~more_entries(self) -> visit_entries(self, host)
      [] OTHER -> Stepped(self, <<>>)

InitTwin ==
    /\ schema = <<>>
    /\ sent = {}
    /\ ser = NoEmitter
    /\ out = <<>>
    /\ calls = <<>>
    /\ written = <<>>
    /\ rpos = 0
    /\ defs = ValueDefs
    /\ decoded = <<>>
    /\ input = <<>>
    /\ generated = NotGenerated
    /\ de = NoValueDeserializer
    /\ visitor = <<>>
    /\ types = <<>>
    /\ registration = NoRegistration
    /\ twin = NoTwin

TwinFrame ==
    /\ UNCHANGED <<schema, sent, ser, out, calls, rpos, defs, decoded>>
    /\ UNCHANGED deriveVars
    /\ UNCHANGED registerVars

\* the writer sends a map, of which `cut` bytes arrive
WriteTwins ==
    /\ twin.st = "none"
    /\ \E pairs \in TwinPairSeqs(MaxPairs) :
         \E cut \in 0..Len(TwinMapBody(pairs, HonestMetas(pairs))) :
            twin' = [NoTwin EXCEPT !.st = "written", !.pairs = pairs,
                                   !.metas = HonestMetas(pairs), !.cut = cut]
    /\ UNCHANGED <<written, de, visitor>>
    /\ TwinFrame

\* one field of the metadata of one key or value is changed, to a varint as
\* long as the one it replaces
ChangeMeta ==
    /\ twin.st = "written"
    /\ twin.changes < MaxChanges
    /\ \E k \in 1..Len(twin.pairs), side \in {"key", "val"}, field \in MetaFields :
         \E v \in OtherValues(field) :
            LET Changed(m) ==
                    /\ v # MetaField(m, field)
                    /\ Len(MetaBytes(field, v)) = Len(MetaBytes(field, MetaField(m, field)))
                    /\ twin' = [twin EXCEPT
                                  !.changes = @ + 1,
                                  !.metas[k] =
                                     IF side = "key"
                                     THEN [@ EXCEPT !.key = WithMetaField(m, field, v)]
                                     ELSE [@ EXCEPT !.val = WithMetaField(m, field, v)]]
            IN  Changed(IF side = "key" THEN twin.metas[k].key ELSE twin.metas[k].val)
    /\ UNCHANGED <<written, de, visitor>>
    /\ TwinFrame

\* the driver makes a ValueDeserializer over each of the two messages
ReceiveTwins ==
    /\ twin.st = "written"
    /\ de.st = "none"
    /\ LET Made(sentBody, otherBody) ==
               /\ de' = ValueDeserializer_new(GoMapId, sentBody)
               /\ written' = <<ValueMessage(GoMapId, twin.pairs, sentBody)>>
               /\ twin' = [twin EXCEPT !.st = "running",
                                       !.de = ValueDeserializer_new(GoMapId, otherBody)]
       IN  Made(TwinBody(twin.pairs, HonestMetas(twin.pairs), twin.cut),
                TwinBody(twin.pairs, twin.metas, twin.cut))
    /\ UNCHANGED visitor
    /\ TwinFrame

\* a step of both runs: the first run takes the step named, the second the
\* step it stands at
BothRan(r, t) ==
    /\ de' = r.de
    /\ visitor' = visitor \o r.calls
    /\ twin' = [twin EXCEPT !.de = t.de, !.visitor = @ \o t.calls]
    /\ UNCHANGED written
    /\ TwinFrame

TwinDeserializeStruct ==
    /\ twin.st = "running"
    /\ de.st = "new"
    /\ BothRan(ValueDeserializer_deserialize_struct(de, defs, HostUser),
               EagerStep(twin.de, defs, HostUser))

TwinReadKey ==
    /\ twin.st = "running"
    /\ de.st = "loop"
    /\ more_entries(de)
    /\ BothRan(read_key(de), EagerStep(twin.de, defs, HostUser))

TwinReadValue ==
    /\ twin.st = "running"
    /\ de.st = "value"
    /\ BothRan(read_value(de), EagerStep(twin.de, defs, HostUser))

TwinVisitMap ==
    /\ twin.st = "running"
    /\ de.st = "loop"
    /\ ~more_entries(de)
    /\ BothRan(visit_entries(de, HostUser), EagerStep(twin.de, defs, HostUser))

NextTwin ==
    \/ WriteTwins
    \/ ChangeMeta
    \/ ReceiveTwins
    \/ TwinDeserializeStruct
    \/ TwinReadKey
    \/ TwinReadValue
    \/ TwinVisitMap

SpecTwin == InitTwin /\ [][NextTwin]_vars

(***************************************************************************)
(* Reading an emitter's buffer back.                                       *)
(***************************************************************************)
RECURSIVE ParseFields(_, _, _, _)
\* the (delta, body) pairs of a struct body from `pos`, the previous index
\* being `prev`: [ok, items, closed], closed when the delta 0 ends the buffer
ParseFields(buf, pos, prev, fields) ==
    IF pos = Len(buf) THEN [ok |-> TRUE, items |-> <<>>, closed |-> FALSE]
    ELSE LET d == read_uint(buf, pos) IN
         IF ~d.ok THEN [ok |-> FALSE, items |-> <<>>, closed |-> FALSE]
         ELSE IF d.v = 0
         THEN [ok |-> d.pos = Len(buf), items |-> <<>>, closed |-> TRUE]
         ELSE IF prev + d.v >= Len(fields)
         THEN [ok |-> FALSE, items |-> <<>>, closed |-> FALSE]
         ELSE LET idx == prev + d.v
                  b == FieldValueDeserializer(fields[idx + 1].id, buf, d.pos)
              IN  IF ~b.ok THEN [ok |-> FALSE, items |-> <<>>, closed |-> FALSE]
                  ELSE LET rest == ParseFields(buf, b.pos, idx, fields) IN
                       [ok |-> rest.ok,
                        items |-> <<[delta |-> d.v, idx |-> idx, v |-> b.v]>>
                                      \o rest.items,
                        closed |-> rest.closed]

RECURSIVE EmittedFields(_, _)
\* the fields a sequence of calls leaves in a struct body: the k-th call is
\* about declaration index k - 1, and a skipped or empty field leaves nothing
EmittedFields(cs, k) ==
    IF k > Len(cs) THEN <<>>
    ELSE (IF cs[k].op = "field" /\ ~cs[k].is_empty
          THEN <<[idx |-> k - 1, v |-> cs[k].v]>> ELSE <<>>)
         \o EmittedFields(cs, k + 1)

RECURSIVE MapEntryBytes(_, _, _, _)
\* the (key, value) bytes the serialize_field calls from the k-th on are to
\* leave in a map body
MapEntryBytes(cs, k, key_type, elem_type) ==
    IF k > Len(cs) THEN <<>>
    ELSE (IF cs[k].op = "field"
          THEN FieldValueSerializer(key_type, V_Str(cs[k].key)).bytes
                 \o FieldValueSerializer(elem_type, cs[k].v).bytes
          ELSE <<>>)
         \o MapEntryBytes(cs, k + 1, key_type, elem_type)

FieldCalls == {k \in 1..Len(calls) : calls[k].op = "field"}
SkipCalls == {k \in 1..Len(calls) : calls[k].op = "skip"}

\* skip a length-counted byte slice
skip_bytes(buf, pos) ==
    LET n == read_bytes_len(buf, pos) IN
    IF ~n.ok THEN n ELSE Rd(n.v, n.pos + n.v)

\* skip one interface value: name, id, byte count and that many bytes
SkipInterface(buf, pos) ==
    LET name == skip_bytes(buf, pos) IN
    IF ~name.ok THEN name
    ELSE LET id == read_int(buf, name.pos) IN
         IF ~id.ok THEN id
         ELSE skip_bytes(buf, id.pos)

RECURSIVE CountPairs(_, _)
\* the number of (key, value) interface pairs from `pos` to the end of the
\* buffer, or -1 when the bytes are not a whole number of pairs
CountPairs(buf, pos) ==
    IF pos = Len(buf) THEN 0
    ELSE LET k == SkipInterface(buf, pos) IN
         IF ~k.ok THEN -1
         ELSE LET e == SkipInterface(buf, k.pos) IN
              IF ~e.ok THEN -1
              ELSE LET rest == CountPairs(buf, e.pos) IN
                   IF rest < 0 THEN -1 ELSE rest + 1

\* the header of a map body: [ok, count, pairs]
MapHeader(buf) ==
    LET s == read_uint(buf, 0) IN
    IF ~s.ok \/ s.v # 0 THEN [ok |-> FALSE, count |-> 0, pairs |-> 0]
    ELSE LET n == read_uint(buf, s.pos) IN
         IF ~n.ok THEN [ok |-> FALSE, count |-> 0, pairs |-> 0]
         ELSE [ok |-> TRUE, count |-> n.v, pairs |-> CountPairs(buf, n.pos)]

(***************************************************************************)
(* C3.  Field-delta correctness: in struct mode, after any calls of        *)
(* serialize_field and skip_field that returned Ok (an Err or a panic ends *)
(* the use of the emitter), the deltas left in the buffer are each         *)
(* at least 1 and sum, from -1, to strictly increasing field indices below *)
(* the field count; each is the declaration index of the field whose body  *)
(* follows it (the k-th call is about index k - 1), skipped and elided     *)
(* fields being counted in the next delta.                                 *)
(***************************************************************************)
FieldDeltaCorrect ==
    (ser.mode = "Struct" /\ ser.st \in {"open", "ended"}) =>
        LET p == ParseFields(ser.value, 0, -1, ser.fields)
            want == EmittedFields(calls, 1)
        IN  /\ p.ok
            /\ p.closed = (ser.st = "ended")
            /\ \A j \in 1..Len(p.items) :
                  /\ p.items[j].delta >= 1
                  /\ p.items[j].idx < Len(ser.fields)
                  /\ j > 1 => p.items[j].idx > p.items[j - 1].idx
            /\ Len(p.items) = Len(want)
            /\ \A j \in 1..Len(want) :
                  /\ p.items[j].idx = want[j].idx
                  /\ p.items[j].v = want[j].v

\* a struct body ended after a skip_field and an elided zero field, with a
\* delta above 1 in it
FieldDeltaWitness ==
    /\ ser.mode = "Struct" /\ ser.st = "ended"
    /\ SkipCalls # {}
    /\ \E k \in FieldCalls : calls[k].is_empty
    /\ \E j \in 1..Len(ParseFields(ser.value, 0, -1, ser.fields).items) :
          ParseFields(ser.value, 0, -1, ser.fields).items[j].delta > 1

(***************************************************************************)
(* C4.  Zero elision: a serialize_field call in struct mode whose value    *)
(* the field serializer reports empty leaves the buffer byte for byte as   *)
(* it was and last_serialized_field_idx unchanged, and advances            *)
(* current_field_idx by exactly one.                                       *)
(***************************************************************************)
ZeroElisionFrame ==
    [][(/\ ser.mode = "Struct"
        /\ ser.st = "open"
        /\ Len(calls') = Len(calls) + 1
        /\ calls'[Len(calls')].op = "field"
        /\ calls'[Len(calls')].is_empty)
       => /\ ser'.st = "open"
          /\ ser'.value = ser.value
          /\ ser'.last_serialized_field_idx = ser.last_serialized_field_idx
          /\ ser'.current_field_idx = ser.current_field_idx + 1]_vars

\* an empty field was serialized after a field that left bytes in the buffer
ZeroElisionWitness ==
    /\ ser.mode = "Struct" /\ ser.st = "open"
    /\ Len(calls) >= 2
    /\ calls[Len(calls)].op = "field" /\ calls[Len(calls)].is_empty
    /\ ser.value # <<>>
    /\ ser.last_serialized_field_idx < ser.current_field_idx - 1

(***************************************************************************)
(* C9.  Map-mode layout: after n >= 1 serialize_field calls on an emitter  *)
(* made for a map type, the buffer is the singleton marker 0 and the count *)
(* len, once, then for each call in call order the field name under the    *)
(* key type and the value under the element type; no delta is written and  *)
(* a zero value is written like any other.                                 *)
(***************************************************************************)
MapModeLayout ==
    (/\ ser.mode = "Map"
     /\ FieldCalls # {}
     /\ ser.st = "open" \/ (ser.st = "ended" /\ ser.len # 0)) =>
        ser.value = <<0>> \o EncUint(ser.len)
                      \o MapEntryBytes(calls, 1, ser.key_type, ser.elem_type)

\* two entries written in map mode, one of them a zero value
MapModeWitness ==
    /\ ser.mode = "Map" /\ ser.st = "open"
    /\ Cardinality(FieldCalls) >= 2
    /\ \E k \in FieldCalls : IsZero(calls[k].v)
    /\ \E k \in FieldCalls : ~IsZero(calls[k].v)

(***************************************************************************)
(* C10.  Map entry count: in map mode, when the serialize_field and        *)
(* skip_field calls number len (len >= 1; the emitter of no field is       *)
(* another claim's), the count in the header equals the number of (key,    *)
(* value) pairs in the buffer when end is called.                          *)
(***************************************************************************)
MapCountMatchesEntries ==
    (/\ ser.mode = "Map" /\ ser.st = "ended"
     /\ ser.len >= 1
     /\ Len(calls) = ser.len) =>
        LET h == MapHeader(ser.value) IN h.ok /\ h.count = h.pairs

(***************************************************************************)
(* The value messages of the stream, in order: the k-th is the message of  *)
(* the k-th value written.                                                 *)
(***************************************************************************)
IsValueMsg(m) == m.kind = "value"
ValueMsgs == SelectSeq(out, IsValueMsg)

(***************************************************************************)
(* C1.  Round trip of a map-interpreted struct: every User value (i64,     *)
(* string and bool fields, zero values among them) written by the          *)
(* StreamSerializer and read back by the StreamDeserializer into User is   *)
(* decoded with success, and every field equals the field written.         *)
(***************************************************************************)
RoundTrip ==
    \A k \in 1..Len(decoded) :
        written[k].type = "User" =>
            /\ decoded[k].ok
            /\ Len(decoded[k].f) = Len(written[k].f)
            /\ \A i \in 1..Len(written[k].f) : decoded[k].f[i] = written[k].f[i]

\* a User with uid = 0, an empty uname and has_2fa = false has been read
\* back, after a User with a negative uid
RoundTripWitness ==
    /\ Len(decoded) = 2
    /\ written[1].type = "User" /\ written[1].f[1] = V_I64(-1)
    /\ written[2].type = "User"
    /\ written[2].f[1] = V_I64(0)
    /\ written[2].f[2] = V_Str(<<>>)
    /\ written[2].f[5] = V_Bool(FALSE)
    /\ decoded[2].ok

(***************************************************************************)
(* C2.  Definition before use: in the stream produced by any top-level     *)
(* serialize calls, a value message with a user-defined type id has a      *)
(* definition message of the same id before it (the map type of a          *)
(* map-interpreted struct included), and the reader, going front to back,  *)
(* has the definition installed when it takes the value message.           *)
(***************************************************************************)
DefinitionBeforeUse ==
    /\ \A j \in 1..Len(out) :
          (out[j].kind = "value" /\ out[j].id \notin WellKnownIds) =>
              \E i \in 1..(j - 1) : out[i].kind = "def" /\ out[i].id = out[j].id
    /\ rpos > 0 =>
          /\ out[rpos].kind = "value"
          /\ out[rpos].id \in DOMAIN defs

\* a stream of two types, the map of a map-interpreted struct one of them,
\* with a second value of a type that is already defined, all read
DefinitionBeforeUseWitness ==
    /\ Len(ValueMsgs) = 2
    /\ Len(out) = 3
    /\ lookup(schema, out[2].id).kind = "Map"
    /\ out[3].id = out[2].id
    /\ rpos = Len(out)

(***************************************************************************)
(* C5.  Scenario S2: the value message of Point{X:1, Y:0, Z:3} holds delta *)
(* 1, the body of X (1), delta 2 (Y left out), the body of Z (3) and the   *)
(* terminator 0, with no singleton marker before the first delta, and Y    *)
(* decodes as 0.                                                           *)
(***************************************************************************)
PointS2 == HostValue("Point", <<V_I64(1), V_I64(0), V_I64(3)>>)

S2Layout ==
    \A k \in 1..Len(written) :
        written[k] = PointS2 =>
            /\ ValueMsgs[k].body
                  = <<1>> \o EncInt(1) \o <<2>> \o EncInt(3) \o <<0>>
            /\ k <= Len(decoded) =>
                  /\ decoded[k].ok
                  /\ decoded[k].f = <<V_I64(1), V_I64(0), V_I64(3)>>

\* C5 as the scenario words it: a singleton marker 0 comes first
S2LayoutWithSingleton ==
    \A k \in 1..Len(written) :
        written[k] = PointS2 =>
            /\ ValueMsgs[k].body
                  = <<0>> \o <<1>> \o EncInt(1) \o <<2>> \o EncInt(3) \o <<0>>
            /\ k <= Len(decoded) =>
                  /\ decoded[k].ok
                  /\ decoded[k].f[2] = V_I64(0)

\* Point{1, 0, 3} has been written and read back
S2Witness ==
    \E k \in 1..Len(decoded) : written[k] = PointS2 /\ decoded[k].ok

(***************************************************************************)
(* What the reader makes of a wire map read into User.                     *)
(***************************************************************************)
DecodeUser(entries) ==
    deserialize_struct(GoMapId, (GoMapId :> MapType(INTERFACE, INTERFACE)),
                       GoInterfaceMap(entries), HostUser)

\* the wire with its i-th and j-th entries exchanged
Swap(entries, i, j) ==
    [entries EXCEPT ![i] = entries[j], ![j] = entries[i]]

\* two decodes that both fail, or both succeed with the same struct
SameOutcome(d, r) == d.ok = r.ok /\ d.f = r.f

\* the positions of the entries under the serialized name of field i
EntriesOf(entries, i) ==
    {e \in 1..Len(entries) : entries[e].key = HostUser.fields[i].name}

(***************************************************************************)
(* C6.  Key-addressed decoding: a map of interface to interface with       *)
(* string keys, read into User, gives each field the value of the entry    *)
(* under the field's serialized name ("_old_uid" and                       *)
(* "userHasTwoFactorAuth" among them) when the wire has an entry for each  *)
(* field; and the outcome is the same when any two entries of the wire     *)
(* change places, so, every order of the entries being a wire the reader   *)
(* may get, the same for every permutation.                                *)
(***************************************************************************)
KeyAddressedDecode ==
    \A k \in 1..Len(decoded) :
        written[k].type = "User" =>
            /\ (\A i \in 1..Len(HostUser.fields) :
                    EntriesOf(written[k].f, i) # {}) =>
                  /\ decoded[k].ok
                  /\ \A i \in 1..Len(HostUser.fields) :
                        \A e \in EntriesOf(written[k].f, i) :
                            decoded[k].f[i] = written[k].f[e].v
            /\ \A i, j \in 1..Len(written[k].f) :
                  i < j => SameOutcome(DecodeUser(Swap(written[k].f, i, j)),
                                       decoded[k])

\* a wire with an entry for every field, the last field's entry first and
\* a key User does not have among them, has been read
KeyAddressedWitness ==
    /\ Len(decoded) = 1
    /\ written[1].type = "User"
    /\ Len(written[1].f) = 6
    /\ written[1].f[1].key = S_has_2fa
    /\ written[1].f[2].key = S_X
    /\ written[1].f[6].key = S_uid
    /\ decoded[1].ok

(***************************************************************************)
(* C7.  Absent field yields the zero default: when the stream read into a  *)
(* host struct does not carry one of its fields (a field of a struct left  *)
(* out by the delta encoding, or a key that the interface map read into    *)
(* User does not have), the decode succeeds and the field holds the zero   *)
(* default of its type (0, the empty string, false).                       *)
(***************************************************************************)
\* the indices (from 1) of the fields a struct body carries
CarriedFields(body, fields) ==
    {ParseFields(body, 0, -1, fields).items[j].idx + 1 :
        j \in 1..Len(ParseFields(body, 0, -1, fields).items)}

AbsentFieldYieldsDefault ==
    \A k \in 1..Len(decoded) :
        /\ written[k].type = "Point" =>
              \A i \in 1..Len(HostPoint.fields) :
                  i \notin CarriedFields(ValueMsgs[k].body, Point.fields) =>
                      /\ decoded[k].ok
                      /\ decoded[k].f[i] = ZeroOf(HostPoint.fields[i].kind)
        /\ written[k].type = "User" =>
              \A i \in 1..Len(HostUser.fields) :
                  EntriesOf(written[k].f, i) = {} =>
                      /\ decoded[k].ok
                      /\ decoded[k].f[i] = ZeroOf(HostUser.fields[i].kind)

(***************************************************************************)
(* C8.  The interpret_as override: for a type under #[gob(interpret_as =   *)
(* "map[interface{}]interface{}")], the generated schema_register makes    *)
(* exactly one register_type call, with the map type of key INTERFACE and  *)
(* element INTERFACE, and registers no struct definition and no field      *)
(* type, whatever other keys (type_id = 64, say) the gob attribute holds.  *)
(***************************************************************************)
\* the interpret_as metas of the gob attributes
InterpretAsMetas ==
    {<<a, m>> \in (1..Len(input)) \X (1..MaxMetas) :
        /\ input[a].path = "gob"
        /\ m <= Len(input[a].metas)
        /\ input[a].metas[m].name = "interpret_as"}

\* the gob attributes say interpret_as once, and say the interface map
AnnotatedAsMap ==
    /\ Cardinality(InterpretAsMetas) = 1
    /\ \A am \in InterpretAsMetas : input[am[1]].metas[am[2]].s = MapInterface

InterpretAsOverride ==
    (generated # NotGenerated /\ AnnotatedAsMap) =>
        /\ generated.outcome = "map"
        /\ generated.regs = <<MapType(INTERFACE, INTERFACE)>>

(***************************************************************************)
(* Observing a run of SpecValue against what the writer sent.              *)
(***************************************************************************)
\* the run went into the eager path of deserialize_struct
EagerPath ==
    /\ de.method = "deserialize_struct"
    /\ lookup(defs, de.type_id) = MapType(INTERFACE, INTERFACE)

\* the message holds the marker 0, the count and every pair whole, and
\* every pair is a string key and a scalar the reader takes
WireIntact(m) ==
    /\ m.body = GoMapBody(0, m.pairs)
    /\ \A k \in 1..Len(m.pairs) :
          m.pairs[k].key.v # None /\ m.pairs[k].val.v # None

\* the entries the writer sent
WireEntries(m) ==
    [k \in 1..Len(m.pairs) |-> Entry(m.pairs[k].key.v.s, m.pairs[k].val.v)]

(***************************************************************************)
(* C11.  Eager buffering: on a root map whose key and element are both     *)
(* interface, the visitor receives visit_map only after all the entries    *)
(* the wire announces are read (the cursor is at the end of the message    *)
(* and the call carries every entry, in wire order); when the read of any  *)
(* entry fails (the message is cut short, a key, a value or a type name    *)
(* is not UTF-8, a type name is not supported), deserialize_struct         *)
(* returns the error and the visitor has received nothing.                 *)
(***************************************************************************)
EagerBuffering ==
    EagerPath =>
        /\ visitor # <<>> =>
              /\ de.st = "returned"
              /\ WireIntact(written[1])
              /\ de.pos = Len(de.msg)
              /\ visitor = <<VisitCall("visit_map", "MapDeserializer", "",
                                       WireEntries(written[1]))>>
        /\ (de.st = "returned" /\ ~WireIntact(written[1])) =>
              /\ ~de.res.ok
              /\ visitor = <<>>

\* the read of the second entry failed, the first being in the vector
EagerFailureWitness ==
    /\ EagerPath
    /\ de.st = "returned"
    /\ ~de.res.ok
    /\ Len(de.entries) = 1
    /\ de.len = 2
    /\ visitor = <<>>

\* the SimpleValue variant the reader gives a value of the named type
KindOfName(name) ==
    IF name = S_string THEN "Str"
    ELSE IF name = S_int64 THEN "I64"
    ELSE IF name = S_uint64 THEN "U64"
    ELSE IF name = S_bool THEN "Bool"
    ELSE IF name = S_float64 THEN "F64"
    ELSE "None"

\* the bytes of an interface value in front of its body
GoHeader(g) ==
    EncBytes(g.name) \o EncInt(g.id) \o EncUint(Len(g.body) + 1) \o <<0>>

\* where the header of the value of the k-th pair ends in the message
ValueHeaderEnd(m, k) ==
    Len(GoMapBody(0, SubSeq(m.pairs, 1, k - 1)))
        + Len(GoInterface(m.pairs[k].key)) + Len(GoHeader(m.pairs[k].val))

(***************************************************************************)
(* C12.  A typed scalar per entry: in the eager path every value put in    *)
(* the vector is the scalar its concrete type name calls for, "string" a   *)
(* string, "int64" a signed varint, "uint64" an unsigned varint, "bool" a  *)
(* bool and "float64" a float, equal to the value the writer sent; and a   *)
(* value under any other type name ends the decode with "unsupported map   *)
(* value type in interface map", which no other value does.                *)
(***************************************************************************)
TypedScalars ==
    EagerPath =>
        /\ \A k \in 1..Len(de.entries) :
              /\ de.entries[k].v = written[1].pairs[k].val.v
              /\ de.entries[k].v.k = KindOfName(written[1].pairs[k].val.name)
        /\ \A k \in 1..Len(written[1].pairs) :
              (/\ de.st = "returned"
               /\ Len(de.entries) = k - 1
               /\ de.len >= k
               /\ written[1].pairs[k].key.v # None
               /\ Len(de.msg) >= ValueHeaderEnd(written[1], k)
               /\ IsUtf8(written[1].pairs[k].val.name))
              => (KindOfName(written[1].pairs[k].val.name) = "None"
                    <=> de.res.err = "unsupported map value type in interface map")

\* a uint64 and a float64 are in the vector
TypedScalarsWitness ==
    /\ EagerPath
    /\ Len(de.entries) = 2
    /\ de.entries[1].v.k = "U64"
    /\ de.entries[2].v.k = "F64"

\* an entry point of the ValueDeserializer has been called
Entered == de.st \notin {"none", "new"}

\* the message starts with a one-byte unsigned varint that is not 0
MarkerNotZero == de.msg # <<>> /\ de.msg[1] \in 1..127

(***************************************************************************)
(* C13.  The singleton marker at the root, for deserialize_any,            *)
(* deserialize_enum and deserialize_struct alike: a root whose type is a   *)
(* struct goes to the struct decoder with the cursor at the start of the   *)
(* message, no marker consumed; for any other root one unsigned varint is  *)
(* read first, and when it is not 0 the entry point returns an error,      *)
(* "expected singleton=0 for map[interface{}]interface{} value" in the     *)
(* eager path and "neither a singleton nor a struct value" elsewhere,      *)
(* with no decoder made and nothing delivered to the visitor.              *)
(***************************************************************************)
SingletonAtRoot ==
    Entered =>
        IF lookup(defs, de.type_id).kind = "Struct"
        THEN /\ de.handed = "StructValueDeserializer"
             /\ de.pos = 0
        ELSE /\ de.handed # "StructValueDeserializer"
             /\ MarkerNotZero =>
                   /\ de.st = "returned"
                   /\ de.pos = 1
                   /\ ~de.res.ok
                   /\ de.res.err =
                        IF EagerPath
                        THEN "expected singleton=0 for map[interface{}]interface{} value"
                        ELSE "neither a singleton nor a struct value"
                   /\ de.handed = ""
                   /\ visitor = <<>>
             /\ (de.msg # <<>> /\ de.msg[1] = 0) => de.pos >= 1

\* deserialize_enum on a root that is not a struct, the marker not 0
SingletonWitness ==
    /\ de.st = "returned"
    /\ de.method = "deserialize_enum"
    /\ de.type_id = I64
    /\ MarkerNotZero
    /\ de.res.err = "neither a singleton nor a struct value"

(***************************************************************************)
(* C14.  An unknown type id: when the id of the root has no definition in  *)
(* the type table and is not well-known, every entry point returns an      *)
(* UnknownType error and the visitor receives nothing.                     *)
(***************************************************************************)
UnknownTypeError ==
    (/\ Entered
     /\ de.type_id \notin DOMAIN defs
     /\ de.type_id \notin WellKnownIds)
    => /\ de.st = "returned"
       /\ ~de.res.ok
       /\ de.res.err = "unknown type"
       /\ visitor = <<>>

\* where the header of the key of the k-th pair ends in the message
KeyHeaderEnd(m, k) ==
    Len(GoMapBody(0, SubSeq(m.pairs, 1, k - 1)))
        + Len(GoHeader(m.pairs[k].key))

(***************************************************************************)
(* C18.  Keys of an interface map are strings: in the eager path a key     *)
(* whose concrete type name is not "string" ends the decode with           *)
(* "unsupported map key type in interface map", the cursor still at the    *)
(* end of the key's header (neither the key's body nor the entry's value   *)
(* is read), the entry not in the vector and nothing delivered to the      *)
(* visitor; no key named "string" gives that error, and a value is read    *)
(* only after a key named "string".                                        *)
(***************************************************************************)
StringKeysOnly ==
    EagerPath =>
        /\ \A k \in 1..Len(written[1].pairs) :
              (/\ de.st = "returned"
               /\ Len(de.entries) = k - 1
               /\ de.len >= k
               /\ Len(de.msg) >= KeyHeaderEnd(written[1], k)
               /\ IsUtf8(written[1].pairs[k].key.name))
              => IF written[1].pairs[k].key.name # S_string
                 THEN /\ de.res.err = "unsupported map key type in interface map"
                      /\ ~de.res.ok
                      /\ de.pos = KeyHeaderEnd(written[1], k)
                      /\ visitor = <<>>
                 ELSE de.res.err # "unsupported map key type in interface map"
        /\ de.st = "value" =>
              written[1].pairs[Len(de.entries) + 1].key.name = S_string

\* the second key is an int64, the first entry being in the vector
StringKeysWitness ==
    /\ EagerPath
    /\ de.st = "returned"
    /\ Len(de.entries) = 1
    /\ Len(written[1].pairs) = 2
    /\ written[1].pairs[2].key.name = S_int64
    /\ de.res.err = "unsupported map key type in interface map"

(***************************************************************************)
(* Observing the calls a visitor made on a MapMapAccess.                   *)
(***************************************************************************)
\* the first i calls that are a next_key_seed with a return among `rets`
KeyCalls(i, rets) ==
    {j \in 1..i : visitor[j].call = "next_key_seed" /\ visitor[j].ret \in rets}

\* keys returned in the first i calls
KeysReturned(i) == Cardinality(KeyCalls(i, {"Some"}))

\* key reads made in the first i calls, a key returned or the read failed
KeyReads(i) == Cardinality(KeyCalls(i, {"Some", "Err"}))

(***************************************************************************)
(* C16.  The count of a MapMapAccess made with count len, as stated:       *)
(* next_key_seed returns Some(key) exactly len times and then None;        *)
(* remaining_count goes down by exactly one for each key returned, never   *)
(* below zero, and next_value_seed leaves it alone; size_hint is always    *)
(* the number of keys not yet returned.                                    *)
(***************************************************************************)
MapAccessCount ==
    de.st = "access" =>
        /\ de.remaining_count = de.len - KeysReturned(Len(visitor))
        /\ de.remaining_count >= 0
        /\ \A i \in 1..Len(visitor) :
              /\ visitor[i].call = "next_key_seed" =>
                    visitor[i].ret =
                        IF KeysReturned(i - 1) < de.len THEN "Some" ELSE "None"
              /\ visitor[i].call = "size_hint" =>
                    visitor[i].entries = <<V_U64(de.len - KeysReturned(i - 1))>>

(***************************************************************************)
(* C16, amended.  Every call of next_key_seed made while remaining_count   *)
(* is not 0 takes one off it, whether the key read then returns Some(key)  *)
(* or fails: remaining_count is len less the key reads made, never below   *)
(* zero and left alone by next_value_seed and size_hint; next_key_seed     *)
(* returns None exactly when len key reads were made, so Some(key) at      *)
(* most len times, and exactly len times before None when no key read      *)
(* fails; size_hint is len less the key reads made.                        *)
(***************************************************************************)
MapAccessCountKeyReads ==
    de.st = "access" =>
        /\ de.remaining_count = de.len - KeyReads(Len(visitor))
        /\ de.remaining_count >= 0
        /\ KeysReturned(Len(visitor)) <= de.len
        /\ \A i \in 1..Len(visitor) :
              /\ visitor[i].call = "next_key_seed" =>
                    (visitor[i].ret = "None" <=> KeyReads(i - 1) = de.len)
              /\ (visitor[i].call = "next_key_seed"
                    /\ visitor[i].ret = "None"
                    /\ KeyCalls(i, {"Err"}) = {}) =>
                    KeysReturned(i) = de.len
              /\ visitor[i].call = "size_hint" =>
                    visitor[i].entries = <<V_U64(de.len - KeyReads(i - 1))>>

\* a map of two entries: both keys returned, a value read, then None
MapAccessWitness ==
    /\ de.st = "access"
    /\ de.len = 2
    /\ KeysReturned(Len(visitor)) = 2
    /\ \E i \in 1..Len(visitor) : visitor[i].call = "next_value_seed"
    /\ visitor[Len(visitor)].call = "next_key_seed"
    /\ visitor[Len(visitor)].ret = "None"

\* SerializeStruct::new has returned and no other call was made
JustMade == ser.st \in {"open", "err"} /\ calls = <<>>

(***************************************************************************)
(* C17.  What SerializeStructValue::new makes of the type id: "type not    *)
(* found" when the schema has no type under it; "schema mismatch, not a    *)
(* struct or map" when the type is neither; the struct mode with           *)
(* current_field_idx 0 and last_serialized_field_idx -1 for a struct; the  *)
(* map mode with needs_init true, the len given and the key and element    *)
(* types of the map for a map.  In every case, the two errors included,    *)
(* nothing is written to the value buffer or to the output.                *)
(***************************************************************************)
NewOutcome ==
    JustMade =>
        /\ ser.value = <<>>
        /\ out = <<>>
        /\ IF ser.type_id \notin DOMAIN schema
           THEN ser.st = "err" /\ ser.err = "type not found"
           ELSE IF schema[ser.type_id].kind = "Struct"
           THEN /\ ser.st = "open"
                /\ ser.mode = "Struct"
                /\ ser.fields = schema[ser.type_id].fields
                /\ ser.current_field_idx = 0
                /\ ser.last_serialized_field_idx = -1
           ELSE IF schema[ser.type_id].kind = "Map"
           THEN /\ ser.st = "open"
                /\ ser.mode = "Map"
                /\ ser.needs_init
                /\ ser.len \in 0..MaxLen
                /\ ser.key_type = schema[ser.type_id].key
                /\ ser.elem_type = schema[ser.type_id].elem
           ELSE /\ ser.st = "err"
                /\ ser.err = "schema mismatch, not a struct or map"

\* new under the id of a sequence type
NewWitness ==
    /\ JustMade
    /\ ser.type_id = SeqId
    /\ ser.err = "schema mismatch, not a struct or map"

\* a host struct without fields, read from a map without entries
HostEmpty == [name |-> "Empty", default |-> FALSE, fields |-> <<>>]

(***************************************************************************)
(* C19.  The empty map: when a map-mode emitter is made with len 0 and     *)
(* end is called with no serialize_field before it, the value buffer holds *)
(* the singleton marker 0 followed by the count 0, and the eager decoder   *)
(* takes it as a map without entries.                                      *)
(***************************************************************************)
EmptyMapRoundTrip ==
    (/\ ser.st = "ended"
     /\ ser.mode = "Map"
     /\ ser.len = 0
     /\ \A i \in 1..Len(calls) : calls[i].op # "field")
    => /\ ser.value = <<0, 0>>
       /\ deserialize_interface_map(ser.value, HostEmpty) = DeOk(<<>>)

(***************************************************************************)
(* C20.  Field emission does not touch the output: a serialize_field or a  *)
(* skip_field of the public SerializeStruct changes the inner value        *)
(* buffer at most and leaves the output as it is; the output grows only    *)
(* in end, by one flush: the definitions still pending and then the one    *)
(* value message, holding the value buffer; so after a serialize_field     *)
(* that returned an error, end not being called, the output is as it was   *)
(* before the first call.                                                  *)
(***************************************************************************)
OutputOnlyAtEnd ==
    [][/\ ser'.st # "ended" => out' = out
       /\ ser.st = "ended" => out' = out
       /\ (ser.st = "open" /\ ser'.st = "ended") =>
             /\ Len(out') > Len(out)
             /\ SubSeq(out', 1, Len(out)) = out
             /\ out'[Len(out')] = ValueMsg(ser'.type_id, ser'.value)
             /\ \A j \in (Len(out) + 1)..(Len(out') - 1) : ~IsValueMsg(out'[j])
       /\ ser'.st = "err" => out' = <<>>]_vars

\* a serialize_field returned an error after bytes went into the value
\* buffer, and the output is empty
OutputUntouchedWitness ==
    /\ ser.st = "err"
    /\ calls # <<>>
    /\ calls[Len(calls)].op = "field"
    /\ ser.value # <<>>
    /\ out = <<>>

(***************************************************************************)
(* C15: children are registered before their parent.                       *)
(***************************************************************************)
\* the type schema_register was called on
Root == types[Len(types)]

RECURSIVE TypeAt(_, _, _)
\* the type written at `path` of `ty`, from the k-th step on
TypeAt(ty, path, k) ==
    IF k > Len(path) THEN ty ELSE TypeAt(ty.elems[path[k]], path, k + 1)

\* where in the log the step `op` of the type at `path` is, 0 when nowhere
StepAt(op, path) ==
    LET log == registration.log
        here == {i \in DOMAIN log : log[i].op = op /\ log[i].path = path}
    IN  IF here = {} THEN 0 ELSE CHOOSE i \in here : \A j \in here : i <= j

\* the composite at `path`: its children are called in the order written,
\* each after the one before it has returned; when all returned an id,
\* register_type follows once, with exactly those ids; when one returned an
\* error, register_type is not called and the composite returns that error
ParentAfterChildren(path) ==
    LET log == registration.log
        ty == TypeAt(Root, path, 1)
        n == Len(ty.elems)
        call(c) == StepAt("call", Append(path, c))
        ret(c) == StepAt("return", Append(path, c))
        rt == StepAt("register_type", path)
        back == StepAt("return", path)
        failed == {c \in 1..n : ret(c) # 0 /\ ~log[ret(c)].ok}
        ids == [c \in 1..n |-> log[ret(c)].id]
    IN  /\ StepAt("call", path) < call(1)
        /\ \A c \in 1..n : call(c) # 0 => call(c) < ret(c)
        /\ \A c \in 2..n : call(c) # 0 => ret(c - 1) # 0 /\ ret(c - 1) < call(c)
        /\ Cardinality({i \in DOMAIN log :
                          log[i].op = "register_type" /\ log[i].path = path}) <= 1
        /\ back # 0
        /\ IF failed = {}
           THEN /\ \A c \in 1..n : ret(c) # 0
                /\ ret(n) < rt
                /\ rt < back
                /\ log[rt].ty.ids = IF ty.kind = "Range" THEN <<ids[1], ids[1]>> ELSE ids
           ELSE /\ rt = 0
                /\ ~log[back].ok
                /\ \E c \in failed : log[back].err = log[ret(c)].err

\* C15: every composite host type (Option, array, slice, collection, Range,
\* tuple, map) first calls schema_register of each child in the order
\* written, and only then register_type with a definition over exactly the
\* ids the children returned; when a child returns an error, register_type
\* is not called for the composite and that error is returned.
ChildrenFirst ==
    registration.done =>
        \A i \in DOMAIN registration.log :
            (/\ registration.log[i].op = "call"
             /\ TypeAt(Root, registration.log[i].path, 1).kind \in CompositeKinds)
            => ParentAfterChildren(registration.log[i].path)

\* HashMap<Option<i64>, E> with E failing: the key is registered over the id
\* of i64, then E fails and the map is never registered
ChildrenFirstWitness ==
    /\ registration.done
    /\ Root = HostOver("Map",
                       <<HostOver("Option", <<HostLeaf("I64")>>, 0),
                         HostLeaf("Err")>>, 0)
    /\ StepAt("register_type", <<1>>) # 0
    /\ registration.log[StepAt("register_type", <<1>>)].ok
    /\ registration.log[StepAt("register_type", <<1>>)].ty.ids = <<I64>>
    /\ StepAt("register_type", <<1>>) < StepAt("call", <<2>>)
    /\ StepAt("register_type", <<>>) = 0
    /\ ~registration.ok
    /\ registration.err = "custom"

(***************************************************************************)
(* C21: the eager decoder ignores the nested-message metadata.             *)
(***************************************************************************)
\* the second run stands where the first stands, but for its message
SameRun == [twin.de EXCEPT !.msg = de.msg] = de

\* C21: two wire maps that differ only in the type id, the byte count or
\* the inner singleton marker of a key or value, each a varint as long as
\* the one it replaces, are decoded alike by the eager path: at every step
\* the two runs have the same cursor and the same entries, they return the
\* same result or the same error, and their visitors are handed the same
\* entries.
MetadataIgnored ==
    twin.st = "running" =>
        /\ SameRun
        /\ twin.visitor = visitor
        /\ (de.st = "returned" => twin.de.res = de.res)

\* a whole map of two entries, the byte count of a value changed to 100,
\* more than the message holds: both visitors were handed the two entries
MetadataIgnoredWitness ==
    /\ twin.st = "running"
    /\ twin.changes = 1
    /\ twin.cut = Len(TwinMapBody(twin.pairs, twin.metas))
    /\ twin.de.msg # de.msg
    /\ \E k \in 1..Len(twin.pairs) : twin.metas[k].val.byte_count = 100
    /\ de.st = "returned"
    /\ twin.de.st = "returned"
    /\ Len(visitor) = 1
    /\ Len(visitor[1].entries) = 2
    /\ twin.visitor = visitor

====
